---- MODULE Spec2Model ----
(***************************************************************************)
(* A model of the food-app backend: the /analyze endpoint (src/app.py),    *)
(* the analysis pipeline it runs on a worker thread (src/model_pipeline.py)*)
(* and the older three-call pipeline (src/food-backend).                   *)
(*                                                                         *)
(* Python strings are TLA+ strings: TLC evaluates Len, SubSeq and \o on    *)
(* them, so the string operations of the code (strip, split, startswith,   *)
(* replace, upper, the "in" test) are computed character by character.     *)
(***************************************************************************)
EXTENDS Integers, Sequences, FiniteSets, TLC

(***************************************************************************)
(* Python's str operations                                                 *)
(***************************************************************************)
Ch(s, i) == SubSeq(s, i, i)

\* the ASCII letters, lower case to upper case and back
ToUpper ==
    "a" :> "A" @@ "b" :> "B" @@ "c" :> "C" @@ "d" :> "D" @@ "e" :> "E" @@ "f" :> "F" @@ "g" :> "G" @@
    "h" :> "H" @@ "i" :> "I" @@ "j" :> "J" @@ "k" :> "K" @@ "l" :> "L" @@ "m" :> "M" @@ "n" :> "N" @@
    "o" :> "O" @@ "p" :> "P" @@ "q" :> "Q" @@ "r" :> "R" @@ "s" :> "S" @@ "t" :> "T" @@ "u" :> "U" @@
    "v" :> "V" @@ "w" :> "W" @@ "x" :> "X" @@ "y" :> "Y" @@ "z" :> "Z"

ToLower ==
    "A" :> "a" @@ "B" :> "b" @@ "C" :> "c" @@ "D" :> "d" @@ "E" :> "e" @@ "F" :> "f" @@ "G" :> "g" @@
    "H" :> "h" @@ "I" :> "i" @@ "J" :> "j" @@ "K" :> "k" @@ "L" :> "l" @@ "M" :> "m" @@ "N" :> "n" @@
    "O" :> "o" @@ "P" :> "p" @@ "Q" :> "q" @@ "R" :> "r" @@ "S" :> "s" @@ "T" :> "t" @@ "U" :> "u" @@
    "V" :> "v" @@ "W" :> "w" @@ "X" :> "x" @@ "Y" :> "y" @@ "Z" :> "z"

\* str.upper() / str.lower() on one (ASCII) character
UpperCh(c) == IF c \in DOMAIN ToUpper THEN ToUpper[c] ELSE c

LowerCh(c) == IF c \in DOMAIN ToLower THEN ToLower[c] ELSE c

\* str.upper() / str.lower(): character by character (halving keeps the
\* evaluation shallow on long texts)
RECURSIVE Upper(_)
Upper(s) ==
    IF Len(s) = 0 THEN ""
    ELSE IF Len(s) = 1 THEN UpperCh(s)
    ELSE Upper(SubSeq(s, 1, Len(s) \div 2)) \o Upper(SubSeq(s, Len(s) \div 2 + 1, Len(s)))

RECURSIVE Lower(_)
Lower(s) ==
    IF Len(s) = 0 THEN ""
    ELSE IF Len(s) = 1 THEN LowerCh(s)
    ELSE Lower(SubSeq(s, 1, Len(s) \div 2)) \o Lower(SubSeq(s, Len(s) \div 2 + 1, Len(s)))

IsSpace(c) == c \in {" ", "\n", "\t", "\r"}

\* str.strip(): from the first to the last character that is not white space
Strip(s) ==
    IF \A i \in 1..Len(s) : IsSpace(Ch(s, i)) THEN ""
    ELSE SubSeq(s,
                CHOOSE i \in 1..Len(s) :
                    ~IsSpace(Ch(s, i)) /\ \A j \in 1..(i - 1) : IsSpace(Ch(s, j)),
                CHOOSE i \in 1..Len(s) :
                    ~IsSpace(Ch(s, i)) /\ \A j \in (i + 1)..Len(s) : IsSpace(Ch(s, j)))

\* s.startswith(p)
StartsWith(s, p) == Len(p) <= Len(s) /\ SubSeq(s, 1, Len(p)) = p

\* p in s
Contains(s, p) ==
    \/ p = ""
    \/ \E i \in 1..(Len(s) - Len(p) + 1) :
          Ch(s, i) = Ch(p, 1) /\ SubSeq(s, i, i + Len(p) - 1) = p

\* s.find(p) for a p that occurs in s
FindFirst(s, p) ==
    CHOOSE i \in 1..(Len(s) - Len(p) + 1) :
        /\ SubSeq(s, i, i + Len(p) - 1) = p
        /\ \A j \in 1..(i - 1) : SubSeq(s, j, j + Len(p) - 1) # p

\* s.replace(p, r), p non-empty: every occurrence, left to right
RECURSIVE Replace(_, _, _)
Replace(s, p, r) ==
    IF ~Contains(s, p) THEN s
    ELSE LET i == FindFirst(s, p)
         IN  SubSeq(s, 1, i - 1) \o r \o Replace(SubSeq(s, i + Len(p), Len(s)), p, r)

\* s.split(c) for a one-character separator c: a sequence of strings
RECURSIVE Split(_, _)
Split(s, c) ==
    IF \A i \in 1..Len(s) : Ch(s, i) # c THEN <<s>>
    ELSE LET i == CHOOSE i \in 1..Len(s) :
                      Ch(s, i) = c /\ \A j \in 1..(i - 1) : Ch(s, j) # c
         IN  <<SubSeq(s, 1, i - 1)>> \o Split(SubSeq(s, i + 1, Len(s)), c)

\* sep.join(parts)
RECURSIVE Join(_, _)
Join(parts, sep) ==
    IF Len(parts) = 0 THEN ""
    ELSE IF Len(parts) = 1 THEN parts[1]
    ELSE parts[1] \o sep \o Join(Tail(parts), sep)

(***************************************************************************)
(* src/model_pipeline.py: the fallback text and the response parser        *)
(***************************************************************************)

\* generate_failure_response with the error details left out of the text
generate_failure_response_static(error_details) ==
    "Analysis failed\n"
    \o "\n"
    \o "DISH NAME:\n"
    \o "Unable to analyze this image\n"
    \o "\n"
    \o "VISIBLE INGREDIENTS:\n"
    \o "Could not identify | 0 | g | Image analysis failed\n"
    \o "\n"
    \o "HIDDEN INGREDIENTS:\n"
    \o "Could not identify | 0 | g | Image analysis failed\n"
    \o "\n"
    \o "NUTRITION ANALYSIS:\n"
    \o "Calories | 0 | kcal | Analysis failed - unable to calculate\n"
    \o "Protein | 0 | g | Analysis failed - unable to calculate\n"
    \o "Fat | 0 | g | Analysis failed - unable to calculate\n"
    \o "Carbohydrates | 0 | g | Analysis failed - unable to calculate\n"
    \o "Fiber | 0 | g | Analysis failed - unable to calculate\n"
    \o "Sugar | 0 | g | Analysis failed - unable to calculate\n"
    \o "Sodium | 0 | mg | Analysis failed - unable to calculate\n"

\* generate_failure_response(error_details): the f-string, character for
\* character
generate_failure_response(error_details) ==
    "Analysis failed: " \o error_details \o "\n"
    \o "\n"
    \o "DISH NAME:\n"
    \o "Unable to analyze this image\n"
    \o "\n"
    \o "VISIBLE INGREDIENTS:\n"
    \o "Could not identify | 0 | g | Image analysis failed - " \o error_details \o "\n"
    \o "\n"
    \o "HIDDEN INGREDIENTS:\n"
    \o "Could not identify | 0 | g | Image analysis failed - " \o error_details \o "\n"
    \o "\n"
    \o "NUTRITION ANALYSIS:\n"
    \o "Calories | 0 | kcal | Analysis failed - unable to calculate\n"
    \o "Protein | 0 | g | Analysis failed - unable to calculate\n"
    \o "Fat | 0 | g | Analysis failed - unable to calculate\n"
    \o "Carbohydrates | 0 | g | Analysis failed - unable to calculate\n"
    \o "Fiber | 0 | g | Analysis failed - unable to calculate\n"
    \o "Sugar | 0 | g | Analysis failed - unable to calculate\n"
    \o "Sodium | 0 | mg | Analysis failed - unable to calculate\n"
    \o "\n"
    \o "ERROR DETAILS: " \o error_details \o "\n"

\* the parser's accumulators before the first line
ParseStart ==
    [dish_name |-> "", visible_ingredients |-> << >>, hidden_ingredients |-> << >>,
     nutrition_info |-> << >>, current_section |-> "None"]

\* ParseLine putting each content line before the ones already kept
ParseLinePrepending(st, raw) ==
    LET line  == Strip(raw)
        upper == Upper(line)
    IN  IF line = "" THEN st
        ELSE IF StartsWith(line, "DISH NAME:")
             THEN [st EXCEPT !.dish_name = Strip(Replace(line, "DISH NAME:", ""))]
        ELSE IF Contains(upper, "VISIBLE INGREDIENTS")
             THEN [st EXCEPT !.current_section = "visible"]
        ELSE IF Contains(upper, "HIDDEN INGREDIENTS")
             THEN [st EXCEPT !.current_section = "hidden"]
        ELSE IF Contains(upper, "NUTRITION ANALYSIS") \/ Contains(upper, "NUTRITION INFO")
             THEN [st EXCEPT !.current_section = "nutrition"]
        ELSE IF Contains(line, "|") /\ st.current_section # "None"
                /\ Len(Split(line, "|")) >= 3
             THEN IF st.current_section = "visible"
                  THEN [st EXCEPT !.visible_ingredients = <<line>> \o @]
                  ELSE IF st.current_section = "hidden"
                  THEN [st EXCEPT !.hidden_ingredients = <<line>> \o @]
                  ELSE [st EXCEPT !.nutrition_info = <<line>> \o @]
        ELSE st

\* ParseLine leaving the section at an empty line
ParseLineLeavingSection(st, raw) ==
    LET line  == Strip(raw)
        upper == Upper(line)
    IN  IF line = "" THEN [st EXCEPT !.current_section = "None"]
        ELSE IF StartsWith(line, "DISH NAME:")
             THEN [st EXCEPT !.dish_name = Strip(Replace(line, "DISH NAME:", ""))]
        ELSE IF Contains(upper, "VISIBLE INGREDIENTS")
             THEN [st EXCEPT !.current_section = "visible"]
        ELSE IF Contains(upper, "HIDDEN INGREDIENTS")
             THEN [st EXCEPT !.current_section = "hidden"]
        ELSE IF Contains(upper, "NUTRITION ANALYSIS") \/ Contains(upper, "NUTRITION INFO")
             THEN [st EXCEPT !.current_section = "nutrition"]
        ELSE IF Contains(line, "|") /\ st.current_section # "None"
                /\ Len(Split(line, "|")) >= 3
             THEN IF st.current_section = "visible"
                  THEN [st EXCEPT !.visible_ingredients = Append(@, line)]
                  ELSE IF st.current_section = "hidden"
                  THEN [st EXCEPT !.hidden_ingredients = Append(@, line)]
                  ELSE [st EXCEPT !.nutrition_info = Append(@, line)]
        ELSE st

\* one iteration of the loop over the lines (lines 247-276)
ParseLine(st, raw) ==
    LET line  == Strip(raw)
        upper == Upper(line)
    IN  IF line = "" THEN st
        ELSE IF StartsWith(line, "DISH NAME:")
             THEN [st EXCEPT !.dish_name = Strip(Replace(line, "DISH NAME:", ""))]
        ELSE IF Contains(upper, "VISIBLE INGREDIENTS")
             THEN [st EXCEPT !.current_section = "visible"]
        ELSE IF Contains(upper, "HIDDEN INGREDIENTS")
             THEN [st EXCEPT !.current_section = "hidden"]
        ELSE IF Contains(upper, "NUTRITION ANALYSIS") \/ Contains(upper, "NUTRITION INFO")
             THEN [st EXCEPT !.current_section = "nutrition"]
        ELSE IF Contains(line, "|") /\ st.current_section # "None"
                /\ Len(Split(line, "|")) >= 3
             THEN IF st.current_section = "visible"
                  THEN [st EXCEPT !.visible_ingredients = Append(@, line)]
                  ELSE IF st.current_section = "hidden"
                  THEN [st EXCEPT !.hidden_ingredients = Append(@, line)]
                  ELSE [st EXCEPT !.nutrition_info = Append(@, line)]
        ELSE st

RECURSIVE ParseLines(_, _, _)
ParseLines(st, lines, i) ==
    IF i > Len(lines) THEN st ELSE ParseLines(ParseLine(st, lines[i]), lines, i + 1)

DishKeywords == <<"VISIBLE", "HIDDEN", "NUTRITION", "INGREDIENTS", "ANALYSIS">>

\* lines 279-284: the first of the first five lines that is non-empty and
\* holds no keyword, "" when there is none
DishNameFromFirstLines(lines) ==
    LET n    == IF Len(lines) < 5 THEN Len(lines) ELSE 5
        HasKeyword(upper) == \E k \in 1..Len(DishKeywords) : Contains(upper, DishKeywords[k])
        ok   == {i \in 1..n : Strip(lines[i]) # "" /\ ~HasKeyword(Upper(Strip(lines[i])))}
    IN  IF ok = {} THEN "" ELSE Strip(lines[CHOOSE i \in ok : \A j \in ok : i <= j])

\* required_nutrients without its last entry
required_nutrients_but_sodium ==
    <<"Calories", "Protein", "Fat", "Carbohydrates", "Fiber", "Sugar">>

required_nutrients ==
    <<"Calories", "Protein", "Fat", "Carbohydrates", "Fiber", "Sugar", "Sodium">>

\* NutrientUnit with grams for every nutrient
NutrientUnitGrams(nutrient) == "g"

NutrientUnit(nutrient) ==
    IF nutrient = "Calories" THEN "kcal" ELSE IF nutrient = "Sodium" THEN "mg" ELSE "g"

\* EnsureNutrients comparing the names as they are written
RECURSIVE EnsureNutrientsCaseSensitive(_, _, _)
EnsureNutrientsCaseSensitive(nutrition_info, existing_nutrients, k) ==
    IF k > Len(required_nutrients) THEN nutrition_info
    ELSE LET nutrient == required_nutrients[k]
         IN  EnsureNutrientsCaseSensitive(
                 IF nutrient \notin existing_nutrients
                 THEN Append(nutrition_info,
                             nutrient \o " | 0 | " \o NutrientUnit(nutrient)
                                 \o " | Not determined from image")
                 ELSE nutrition_info,
                 existing_nutrients, k + 1)

\* EnsureNutrients that appends nothing
EnsureNutrientsNothing(nutrition_info, existing_nutrients, k) == nutrition_info

\* lines 291-297: a line appended for every required nutrient whose name is
\* not the first field of a nutrition line (compared in lower case)
RECURSIVE EnsureNutrients(_, _, _)
EnsureNutrients(nutrition_info, existing_nutrients, k) ==
    IF k > Len(required_nutrients) THEN nutrition_info
    ELSE LET nutrient == required_nutrients[k]
         IN  EnsureNutrients(
                 IF Lower(nutrient) \notin existing_nutrients
                 THEN Append(nutrition_info,
                             nutrient \o " | 0 | " \o NutrientUnit(nutrient)
                                 \o " | Not determined from image")
                 ELSE nutrition_info,
                 existing_nutrients, k + 1)

\* parse_dynamic_response(response_text), lines 234-312
parse_dynamic_response(response_text) ==
    LET lines == Split(Strip(response_text), "\n")
        st    == ParseLines(ParseStart, lines, 1)
        name1 == IF st.dish_name = "" THEN DishNameFromFirstLines(lines) ELSE st.dish_name
        name2 == IF name1 = "" THEN "Unidentified food item" ELSE name1
        existing_nutrients ==
            {Lower(Strip(Split(st.nutrition_info[i], "|")[1])) :
                i \in {j \in 1..Len(st.nutrition_info) : Contains(st.nutrition_info[j], "|")}}
        nutrition == EnsureNutrients(st.nutrition_info, existing_nutrients, 1)
        visible == IF st.visible_ingredients = << >>
                   THEN <<"Food item visible | 0 | g | Could not identify specific ingredients">>
                   ELSE st.visible_ingredients
        hidden  == IF st.hidden_ingredients = << >>
                   THEN <<"No hidden ingredients identified | 0 | g | Could not determine cooking method">>
                   ELSE st.hidden_ingredients
    IN  [dish_name |-> name2,
         visible_ingredients |-> Join(visible, "\n"),
         hidden_ingredients |-> Join(hidden, "\n"),
         nutrition_info |-> Join(nutrition, "\n")]

(***************************************************************************)
(* src/model_pipeline.py: validate_image_for_analysis                      *)
(***************************************************************************)
MinDimension == 100
MaxDimension == 4000

\* what PIL raises on a file it cannot use
NoSuchFile(path)   == "[Errno 2] No such file or directory: '" \o path \o "'"
CannotIdentify(path) == "cannot identify image file '" \o path \o "'"

\* Image.open(path): "" when it opens, else the message of the exception
OpenError(path, fs, img) ==
    IF path \notin fs THEN NoSuchFile(path)
    ELSE IF img.integrity = "unreadable" THEN CannotIdentify(path)
    ELSE ""

\* validate_image_for_analysis without the minimum-size check of lines 486-487
validate_image_without_minimum(path, fs, img) ==
    IF OpenError(path, fs, img) # ""
    THEN <<FALSE, "Image validation failed: " \o OpenError(path, fs, img)>>
    ELSE IF img.width > MaxDimension \/ img.height > MaxDimension
    THEN <<TRUE, "Image will be resized for analysis">>
    ELSE IF img.format \notin {"JPEG", "PNG", "WEBP"}
    THEN <<FALSE, "Unsupported image format: " \o img.format>>
    ELSE <<TRUE, "Image is suitable for analysis">>

\* validate_image_for_analysis(image_path) -> <<is_valid, message>>
validate_image_for_analysis(path, fs, img) ==
    IF OpenError(path, fs, img) # ""
    THEN <<FALSE, "Image validation failed: " \o OpenError(path, fs, img)>>
    ELSE IF img.width < MinDimension \/ img.height < MinDimension
    THEN <<FALSE, "Image too small for analysis">>
    ELSE IF img.width > MaxDimension \/ img.height > MaxDimension
    THEN <<TRUE, "Image will be resized for analysis">>
    ELSE IF img.format \notin {"JPEG", "PNG", "WEBP"}
    THEN <<FALSE, "Unsupported image format: " \o img.format>>
    ELSE <<TRUE, "Image is suitable for analysis">>

(***************************************************************************)
(* The requests, images and model answers the model draws from             *)
(***************************************************************************)
Dimensions == {50, 100, 4001}
Formats    == {"JPEG", "PNG", "WEBP", "GIF"}
\* "unreadable": PIL cannot open it; "bad_verify": it opens, verify() raises;
\* "truncated": it opens and verifies, decoding its pixels raises; "ok"
Integrities == {"unreadable", "bad_verify", "truncated", "ok"}

\* the images: a sound 100x100 JPEG, every image that differs from it in one
\* property, the 50x50 image and the oversized image of another format
BaseImage == [width |-> 100, height |-> 100, format |-> "JPEG", integrity |-> "ok"]
Differences(a, b) ==
    Cardinality({f \in {"width", "height", "format", "integrity"} : a[f] # b[f]})
Images ==
    {img \in [width : Dimensions, height : Dimensions, format : Formats,
              integrity : Integrities] :
        \/ Differences(img, BaseImage) <= 1
        \/ img = [BaseImage EXCEPT !.width = 50, !.height = 50]
        \/ img = [BaseImage EXCEPT !.width = 4001, !.format = "GIF"]}

MaxUploadBytes == 10 * 1024 * 1024
MinUploadBytes == 1024
FileSizes == {MinUploadBytes - 1, MinUploadBytes, MaxUploadBytes, MaxUploadBytes + 1}
UserIds   == {"guest", "u1"}

\* the requests: the base request (an upload of the base image, 1024 bytes,
\* no user_id given) and every request that differs from it in one part
BaseRequest ==
    [has_image |-> TRUE, file_size |-> MinUploadBytes, user_id |-> "guest",
     image |-> BaseImage]
Requests ==
    {r \in [has_image : BOOLEAN, file_size : FileSizes, user_id : UserIds,
            image : Images] :
        Cardinality({f \in DOMAIN BaseRequest : r[f] # BaseRequest[f]}) <= 1}

\* messages of the exceptions a model call raises
TransportErrors == {"504 Deadline Exceeded", "429 Resource exhausted"}

\* non-empty response texts: the prompt's format (label, name on the next
\* line), the label and the name on one line, and a refusal in free text
ResponseTexts ==
    { "DISH NAME:\nGrilled chicken\n\nVISIBLE INGREDIENTS:\nChicken | 150 | g | grilled\n\nHIDDEN INGREDIENTS:\nOil | 5 | ml | sheen\n\nNUTRITION ANALYSIS:\nCalories | 300 | kcal | sum\nProtein | 30 | g | chicken\n",
      "DISH NAME: Pasta\nVISIBLE INGREDIENTS:\nPasta | 200 | g | seen\nNUTRITION ANALYSIS:\nCalories | 300 | kcal | est",
      "Unable to analyze this image. Please upload a photo of food." }

\* what one model call ends with: a text (possibly empty) or an exception
CallOutcomes ==
    [kind : {"text"}, value : ResponseTexts \cup {""}]
        \cup [kind : {"raise"}, value : TransportErrors]

(***************************************************************************)
(* State of one /analyze request (src/app.py analyze) and of the worker    *)
(* thread that runs full_image_analysis for it                             *)
(***************************************************************************)
VARIABLES
    req,             \* the request: has_image, file_size, user_id, image
    files,           \* the paths that exist under /tmp
    hpc,             \* the handler's position
    image_path,      \* handler local; "" while unbound
    is_valid,        \* handler local, set by the validation
    response,        \* what the handler returned: status and JSON body
    wpc,             \* the worker's position
    attempt,         \* loop variable of analyze_image_with_gemini_dynamic
    retry_delay,
    optimized_path,  \* worker local; "" while unbound ('optimized_path' in locals())
    err,             \* str(e) of the exception being handled
    pending,         \* the response the model call returned, before it is examined
    gemini_response,
    result,          \* the future's result
    clock,           \* time units since the request arrived
    start_time,
    call_deadline,   \* when the model call in flight times out
    wake_at,         \* when time.sleep returns
    \* history variables
    calls,           \* outbound model calls issued for this request
    waits,           \* the durations slept, in order
    succeeded,       \* a model call has returned non-empty text
    caught,          \* an exception has been caught inside full_image_analysis
    timed_out,       \* future.result raised TimeoutError
    late_ops,        \* what the worker did after the timeout fired
    created,         \* every temporary file created for the request
    call_images      \* the images sent to the model

vars == <<req, files, hpc, image_path, is_valid, response, wpc, attempt, retry_delay,
          optimized_path, err, pending, gemini_response, result, clock, start_time,
          call_deadline, wake_at, calls, waits, succeeded, caught, timed_out, late_ops,
          created, call_images>>

hvars == <<hpc, image_path, is_valid, response, timed_out>>
wvars == <<wpc, attempt, retry_delay, optimized_path, err, pending, gemini_response,
           result, start_time, call_deadline, wake_at>>
gvars == <<calls, waits, succeeded, caught, late_ops, call_images>>

(***************************************************************************)
(* State of two /analyze requests served at once: app.run(threaded=True),  *)
(* src/app.py line 925, gives every request a thread of its own, and all    *)
(* of them write under /tmp                                                *)
(***************************************************************************)
VARIABLES
    now,             \* int(time.time()): the current second, as an index of Seconds
    disk,            \* path -> the file under it: who wrote it, whose image it holds
    handlers,        \* request -> position, image_path and status of its handler
    workers,         \* request -> position and locals of its worker thread
    crossed,         \* history: the kinds of access one request made to a file
                     \* the other had written
    sent             \* history: request -> whose images its model calls carried

cvars == <<now, disk, handlers, workers, crossed, sent>>

(***************************************************************************)
(* State of the parsers run on their own: a text goes through              *)
(* parse_to_dict and parse_dynamic_response, the record of                 *)
(* full_image_analysis is built from it, and what the parser returned is   *)
(* written out again and parsed a second time                              *)
(***************************************************************************)
VARIABLES
    ppc,             \* how far the text has gone
    response_text,   \* the text a model call returned
    parsed_dict,     \* parse_to_dict(response_text)
    parsed_text,     \* parse_dynamic_response(response_text)
    record,          \* the record full_image_analysis builds from it
    nutrition_again, \* its nutrition lines, parsed again under their header
    nutrition_bare,  \* its nutrition lines, parsed again as they are
    ingredients_again \* its ingredient lines, parsed again under their headers

pvars == <<ppc, response_text, parsed_dict, parsed_text, record, nutrition_again, nutrition_bare,
           ingredients_again>>

(***************************************************************************)
(* State of one /recalculate-nutrition request (src/app.py lines 507-552,  *)
(* src/model_pipeline.py lines 392-468)                                    *)
(***************************************************************************)
VARIABLES
    rpc,             \* the handler's position
    data,            \* request.get_json(): None, or the fields of the body
    prompts,         \* history: the ingredient texts sent to the model
    generated,       \* what generate_content did: a text or an exception
    recalculated,    \* what recalculate_nutrition_enhanced returned
    recalc_response  \* what the handler returned: status and JSON body

rvars == <<rpc, data, prompts, generated, recalculated, recalc_response>>

(***************************************************************************)
(* State of one run of the three-call pipeline of                          *)
(* src/food-backend/model_pipeline.py, full_image_analysis, lines 121-134  *)
(***************************************************************************)
VARIABLES
    tpc,                 \* the position in full_image_analysis
    gemini_description,  \* what analyze_image_with_gemini returned
    dish_name,           \* extract_dish_name(gemini_description)
    cleaned_ingredients, \* extract_ingredients_only(gemini_description)
    hidden_ingredients,  \* what search_hidden_ingredients returned
    nutrition_estimate,  \* what estimate_nutrition_from_ingredients returned
    in_flight,           \* the model calls that were sent and have not returned
    call_log,            \* history: each model call with its arguments
    analysis             \* the dict full_image_analysis returned

tvars == <<tpc, gemini_description, dish_name, cleaned_ingredients, hidden_ingredients,
           nutrition_estimate, in_flight, call_log, analysis>>

(***************************************************************************)
(* State of the /register and /login requests of two clients on the users  *)
(* collection (src/app.py lines 33-35 and 84-149, src/auth.py lines 22-70)  *)
(***************************************************************************)
VARIABLES
    users,           \* the users collection: documents in insertion order
    apc,             \* client -> the position of its handler
    abody,           \* client -> the JSON body of its request
    answer,          \* client -> what its handler returned
    nreq,            \* client -> the number of requests it has sent
    snapshot,        \* history: client -> the collection when its request began
    oks              \* history: email -> the register calls answered 200

avars == <<users, apc, abody, answer, nreq, snapshot, oks>>

evars == <<rvars, tvars, avars>>

xvars == <<cvars, pvars, evars>>

max_retries       == 3
InitialRetryDelay == 2
MainCallTimeout   == 90
BasicCallTimeout  == 60
AnalyzeTimeout    == 90

\* int(time.time()) at the upload, as the f-string prints it
UploadSecond == "1718000000"
filename     == "image_" \o UploadSecond \o ".png"
UploadPath   == "/tmp/" \o filename

NoResponse == [status |-> 0, body |-> [none |-> TRUE]]
NoResult   == [none |-> TRUE]

\* the state of everything that takes no part in the single-request runs
NoRequests ==
    /\ now = 1
    /\ disk = << >>
    /\ handlers = << >>
    /\ workers = << >>
    /\ crossed = {}
    /\ sent = << >>

\* no text is being parsed on its own
NoText ==
    /\ ppc = "idle"
    /\ response_text = ""
    /\ parsed_dict = NoResult
    /\ parsed_text = NoResult
    /\ record = NoResult
    /\ nutrition_again = NoResult
    /\ nutrition_bare = NoResult
    /\ ingredients_again = NoResult

\* no recalculation request
NoRecalc ==
    /\ rpc = "idle"
    /\ data = NoResult
    /\ prompts = << >>
    /\ generated = NoResult
    /\ recalculated = ""
    /\ recalc_response = NoResponse

\* no run of the three-call pipeline
NoPipeline ==
    /\ tpc = "idle"
    /\ gemini_description = ""
    /\ dish_name = ""
    /\ cleaned_ingredients = ""
    /\ hidden_ingredients = ""
    /\ nutrition_estimate = ""
    /\ in_flight = {}
    /\ call_log = << >>
    /\ analysis = NoResult

\* no /register and no /login request
NoAuth ==
    /\ users = << >>
    /\ apc = << >>
    /\ abody = << >>
    /\ answer = << >>
    /\ nreq = << >>
    /\ snapshot = << >>
    /\ oks = << >>

NoMore == NoRecalc /\ NoPipeline /\ NoAuth

Idle == NoRequests /\ NoText /\ NoMore

InitRequest ==
    /\ req \in Requests
    /\ files = {}
    /\ hpc = "start"
    /\ image_path = ""
    /\ is_valid = FALSE
    /\ response = NoResponse
    /\ wpc = "idle"
    /\ attempt = 0
    /\ retry_delay = InitialRetryDelay
    /\ optimized_path = ""
    /\ err = ""
    /\ pending = ""
    /\ gemini_response = ""
    /\ result = NoResult
    /\ clock = 0
    /\ start_time = 0
    /\ call_deadline = 0
    /\ wake_at = 0
    /\ calls = 0
    /\ waits = << >>
    /\ succeeded = FALSE
    /\ caught = FALSE
    /\ timed_out = FALSE
    /\ late_ops = {}
    /\ created = {}
    /\ call_images = {}

Init == InitRequest /\ Idle

\* jsonify(...), status: the handler returns
Respond(status, body) ==
    /\ response' = [status |-> status, body |-> body]
    /\ hpc' = "responded"

(***************************************************************************)
(* src/app.py analyze, lines 194-310                                       *)
(***************************************************************************)

\* lines 198-213: the checks before the upload is saved
HandlerReject ==
    /\ hpc = "start"
    /\ \/ /\ ~req.has_image
          /\ Respond(400, [error |-> "No image part in the request"])
       \/ /\ req.has_image
          /\ req.file_size > MaxUploadBytes
          /\ Respond(413, [error |-> "Image too large. Please use an image under 10MB"])
       \/ /\ req.has_image
          /\ req.file_size <= MaxUploadBytes
          /\ req.file_size < MinUploadBytes
          /\ Respond(400, [error |-> "Image too small. Please use a clearer image"])
    /\ UNCHANGED <<req, files, image_path, is_valid, timed_out, clock, created>>
    /\ UNCHANGED wvars
    /\ UNCHANGED gvars
    /\ UNCHANGED xvars

HandlerAccepts ==
    /\ req.has_image
    /\ req.file_size <= MaxUploadBytes
    /\ req.file_size >= MinUploadBytes

\* lines 215-217: image_file.save(image_path)
HandlerSave ==
    /\ hpc = "start"
    /\ HandlerAccepts
    /\ image_path' = UploadPath
    /\ files' = files \cup {UploadPath}
    /\ created' = created \cup {UploadPath}
    /\ hpc' = "validate"
    /\ UNCHANGED <<req, is_valid, response, timed_out, clock>>
    /\ UNCHANGED wvars
    /\ UNCHANGED gvars
    /\ UNCHANGED xvars

\* lines 215-217 when save raises (the disk is full), then lines 298-310:
\* image_path is bound, the partial file is removed
HandlerSaveFails ==
    /\ hpc = "start"
    /\ HandlerAccepts
    /\ image_path' = UploadPath
    /\ files' = files \ {UploadPath}
    /\ created' = created \cup {UploadPath}
    /\ Respond(500, [error |-> "Analysis failed",
                     details |-> "[Errno 28] No space left on device"])
    /\ UNCHANGED <<req, is_valid, timed_out, clock>>
    /\ UNCHANGED wvars
    /\ UNCHANGED gvars
    /\ UNCHANGED xvars

\* lines 221-228
HandlerValidate ==
    /\ hpc = "validate"
    /\ LET v == validate_image_for_analysis(image_path, files, req.image)
       IN  /\ is_valid' = v[1]
           /\ IF v[1]
              THEN /\ hpc' = "submit"
                   /\ UNCHANGED <<files, response>>
              ELSE /\ files' = files \ {image_path}
                   /\ Respond(400, [error |-> "Invalid image: " \o v[2]])
    /\ UNCHANGED <<req, image_path, timed_out, clock, created>>
    /\ UNCHANGED wvars
    /\ UNCHANGED gvars
    /\ UNCHANGED xvars

\* lines 234-235: executor.submit(full_image_analysis, image_path, user_id)
HandlerSubmit ==
    /\ hpc = "submit"
    /\ hpc' = "waiting"
    /\ wpc' = "exists"
    /\ UNCHANGED <<req, files, image_path, is_valid, response, timed_out, clock, created>>
    /\ UNCHANGED <<attempt, retry_delay, optimized_path, err, pending, gemini_response,
                   result, start_time, call_deadline, wake_at>>
    /\ UNCHANGED gvars
    /\ UNCHANGED xvars

(***************************************************************************)
(* src/model_pipeline.py on the worker thread                              *)
(***************************************************************************)

\* what the worker does after future.result has timed out is recorded
Late(op) == late_ops' = IF timed_out THEN late_ops \cup {op} ELSE late_ops

\* Image.open + thumbnail + convert (lines 83-91, 169-173): "" or the message
LoadError(path, fs, img) ==
    IF OpenError(path, fs, img) # "" THEN OpenError(path, fs, img)
    ELSE IF img.integrity # "ok" THEN "image file is truncated"
    ELSE ""

\* full_image_analysis lines 326-335: start_time, os.path.exists
WorkerExists ==
    /\ wpc = "exists"
    /\ start_time' = clock
    /\ IF image_path \in files
       THEN /\ wpc' = "verify"
            /\ UNCHANGED <<err, caught>>
       ELSE /\ wpc' = "fia_except"
            /\ err' = "Image file not found: " \o image_path
            /\ caught' = TRUE
    /\ Late("read")
    /\ UNCHANGED <<req, files, clock, created, calls, waits, succeeded, call_images>>
    /\ UNCHANGED hvars
    /\ UNCHANGED <<attempt, retry_delay, optimized_path, pending, gemini_response,
                   result, call_deadline, wake_at>>
    /\ UNCHANGED xvars

\* lines 338-342: Image.open(image_path).verify()
WorkerVerify ==
    /\ wpc = "verify"
    /\ LET e == IF OpenError(image_path, files, req.image) # ""
                THEN OpenError(image_path, files, req.image)
                ELSE IF req.image.integrity = "bad_verify" THEN "broken PNG file"
                ELSE ""
       IN  IF e = ""
           THEN /\ wpc' = "open"
                /\ attempt' = 0
                /\ retry_delay' = InitialRetryDelay
                /\ UNCHANGED <<err, caught>>
           ELSE /\ wpc' = "fia_except"
                /\ err' = "Invalid image file: " \o e
                /\ caught' = TRUE
                /\ UNCHANGED <<attempt, retry_delay>>
    /\ Late("read")
    /\ UNCHANGED <<req, files, clock, created, calls, waits, succeeded, call_images>>
    /\ UNCHANGED hvars
    /\ UNCHANGED <<optimized_path, pending, gemini_response, result, start_time,
                   call_deadline, wake_at>>
    /\ UNCHANGED xvars

\* analyze_image_with_gemini_dynamic lines 83-91: load the image
WorkerOpen ==
    /\ wpc = "open"
    /\ LET e == LoadError(image_path, files, req.image)
       IN  IF e = ""
           THEN /\ wpc' = "save_opt"
                /\ UNCHANGED <<err, caught>>
           ELSE /\ wpc' = "except"
                /\ err' = e
                /\ caught' = TRUE
    /\ Late("read")
    /\ UNCHANGED <<req, files, clock, created, calls, waits, succeeded, call_images>>
    /\ UNCHANGED hvars
    /\ UNCHANGED <<attempt, retry_delay, optimized_path, pending, gemini_response,
                   result, start_time, call_deadline, wake_at>>
    /\ UNCHANGED xvars

\* lines 94-95: image.save(optimized_path, 'JPEG', quality=85)
WorkerSaveOptimized ==
    /\ wpc = "save_opt"
    /\ optimized_path' = Replace(image_path, ".png", "_opt.jpg")
    /\ files' = files \cup {optimized_path'}
    /\ created' = created \cup {optimized_path'}
    /\ wpc' = "read_opt"
    /\ Late("write")
    /\ UNCHANGED <<req, clock, calls, waits, succeeded, caught, call_images>>
    /\ UNCHANGED hvars
    /\ UNCHANGED <<attempt, retry_delay, err, pending, gemini_response, result,
                   start_time, call_deadline, wake_at>>
    /\ UNCHANGED xvars

\* lines 98-99: read and encode the optimized copy
WorkerReadOptimized ==
    /\ wpc = "read_opt"
    /\ IF optimized_path \in files
       THEN /\ wpc' = "call"
            /\ UNCHANGED <<err, caught>>
       ELSE /\ wpc' = "except"
            /\ err' = NoSuchFile(optimized_path)
            /\ caught' = TRUE
    /\ Late("read")
    /\ UNCHANGED <<req, files, clock, created, calls, waits, succeeded, call_images>>
    /\ UNCHANGED hvars
    /\ UNCHANGED <<attempt, retry_delay, optimized_path, pending, gemini_response,
                   result, start_time, call_deadline, wake_at>>
    /\ UNCHANGED xvars

\* lines 112-116: gemini_model.generate_content(...) is issued
WorkerCall ==
    /\ wpc = "call"
    /\ calls' = calls + 1
    /\ call_images' = call_images \cup {req.image}
    /\ call_deadline' = clock + MainCallTimeout
    /\ wpc' = "calling"
    /\ Late("call")
    /\ UNCHANGED <<req, files, clock, created, waits, succeeded, caught>>
    /\ UNCHANGED hvars
    /\ UNCHANGED <<attempt, retry_delay, optimized_path, err, pending, gemini_response,
                   result, start_time, wake_at>>
    /\ UNCHANGED xvars

\* the call returns a response or raises (at the latest when its own
\* timeout passes)
WorkerCallReturns ==
    /\ wpc = "calling"
    /\ \E o \in CallOutcomes :
          IF o.kind = "text"
          THEN /\ pending' = o.value
               /\ wpc' = "remove_opt"
               /\ UNCHANGED <<err, caught>>
          ELSE /\ err' = o.value
               /\ caught' = TRUE
               /\ wpc' = "except"
               /\ UNCHANGED pending
    /\ UNCHANGED <<req, files, clock, created, calls, waits, succeeded, late_ops,
                   call_images>>
    /\ UNCHANGED hvars
    /\ UNCHANGED <<attempt, retry_delay, optimized_path, gemini_response, result,
                   start_time, call_deadline, wake_at>>
    /\ UNCHANGED xvars

\* lines 118-128: remove the optimized copy, then look at response.text
WorkerRemoveOptimized ==
    /\ wpc = "remove_opt"
    /\ files' = files \ {optimized_path}
    /\ IF pending # ""
       THEN /\ gemini_response' = pending
            /\ succeeded' = TRUE
            /\ wpc' = "parse"
            /\ UNCHANGED <<err, caught>>
       ELSE /\ err' = "Empty response from Gemini API"
            /\ caught' = TRUE
            /\ wpc' = "except"
            /\ UNCHANGED <<gemini_response, succeeded>>
    /\ Late("delete")
    /\ UNCHANGED <<req, clock, created, calls, waits, call_images>>
    /\ UNCHANGED hvars
    /\ UNCHANGED <<attempt, retry_delay, optimized_path, pending, result, start_time,
                   call_deadline, wake_at>>
    /\ UNCHANGED xvars

\* RetriesLeft with the bound off by one: the last attempt is retried too
RetriesLeftOffByOne(a) == a < max_retries

\* line 140: another attempt follows this one
RetriesLeft(a) == a < max_retries - 1

\* NextDelay without the doubling: the same delay before every retry
NextDelayConstant(d) == d

\* line 142: retry_delay *= 2
NextDelay(d) == d * 2

\* lines 130-145: the except clause of one attempt
WorkerExcept ==
    /\ wpc = "except"
    /\ files' = IF optimized_path # "" THEN files \ {optimized_path} ELSE files
    /\ late_ops' = IF timed_out /\ optimized_path \in files THEN late_ops \cup {"delete"}
                   ELSE late_ops
    /\ err' = ""
    /\ IF RetriesLeft(attempt)
       THEN /\ wpc' = "sleeping"
            /\ wake_at' = clock + retry_delay
            /\ waits' = Append(waits, retry_delay)
       ELSE /\ wpc' = "basic_open"
            /\ UNCHANGED <<wake_at, waits>>
    /\ UNCHANGED <<req, clock, created, calls, succeeded, caught, call_images>>
    /\ UNCHANGED hvars
    /\ UNCHANGED <<attempt, retry_delay, optimized_path, pending, gemini_response,
                   result, start_time, call_deadline>>
    /\ UNCHANGED xvars

\* lines 141-142 and 80: time.sleep returns, retry_delay *= 2, next attempt
WorkerWake ==
    /\ wpc = "sleeping"
    /\ clock >= wake_at
    /\ retry_delay' = NextDelay(retry_delay)
    /\ attempt' = attempt + 1
    /\ wpc' = "open"
    /\ UNCHANGED <<req, files, clock, created>>
    /\ UNCHANGED hvars
    /\ UNCHANGED <<optimized_path, err, pending, gemini_response, result, start_time,
                   call_deadline, wake_at>>
    /\ UNCHANGED gvars
    /\ UNCHANGED xvars

\* ---- attempt_basic_analysis, lines 149-207 ----

BasicPath == Replace(image_path, ".png", "_basic.jpg")

\* lines 169-173
BasicOpen ==
    /\ wpc = "basic_open"
    /\ LET e == LoadError(image_path, files, req.image)
       IN  IF e = ""
           THEN /\ wpc' = "basic_save"
                /\ UNCHANGED <<err, caught>>
           ELSE /\ wpc' = "basic_except"
                /\ err' = e
                /\ caught' = TRUE
    /\ Late("read")
    /\ UNCHANGED <<req, files, clock, created, calls, waits, succeeded, call_images>>
    /\ UNCHANGED hvars
    /\ UNCHANGED <<attempt, retry_delay, optimized_path, pending, gemini_response,
                   result, start_time, call_deadline, wake_at>>
    /\ UNCHANGED xvars

\* lines 176-180: save temp_path, read it back
BasicSave ==
    /\ wpc = "basic_save"
    /\ files' = files \cup {BasicPath}
    /\ created' = created \cup {BasicPath}
    /\ wpc' = "basic_call"
    /\ Late("write")
    /\ UNCHANGED <<req, clock, calls, waits, succeeded, caught, call_images>>
    /\ UNCHANGED hvars
    /\ UNCHANGED <<attempt, retry_delay, optimized_path, err, pending, gemini_response,
                   result, start_time, call_deadline, wake_at>>
    /\ UNCHANGED xvars

\* lines 188-192
BasicCall ==
    /\ wpc = "basic_call"
    /\ IF BasicPath \in files
       THEN /\ calls' = calls + 1
            /\ call_images' = call_images \cup {req.image}
            /\ call_deadline' = clock + BasicCallTimeout
            /\ wpc' = "basic_calling"
            /\ late_ops' = IF timed_out THEN late_ops \cup {"read", "call"} ELSE late_ops
            /\ UNCHANGED <<err, caught>>
       ELSE /\ err' = NoSuchFile(BasicPath)
            /\ caught' = TRUE
            /\ wpc' = "basic_except"
            /\ Late("read")
            /\ UNCHANGED <<calls, call_images, call_deadline>>
    /\ UNCHANGED <<req, files, clock, created, waits, succeeded>>
    /\ UNCHANGED hvars
    /\ UNCHANGED <<attempt, retry_delay, optimized_path, pending, gemini_response,
                   result, start_time, wake_at>>
    /\ UNCHANGED xvars

BasicCallReturns ==
    /\ wpc = "basic_calling"
    /\ \E o \in CallOutcomes :
          IF o.kind = "text"
          THEN /\ pending' = o.value
               /\ wpc' = "basic_remove"
               /\ UNCHANGED <<err, caught>>
          ELSE /\ err' = o.value
               /\ caught' = TRUE
               /\ wpc' = "basic_except"
               /\ UNCHANGED pending
    /\ UNCHANGED <<req, files, clock, created, calls, waits, succeeded, late_ops,
                   call_images>>
    /\ UNCHANGED hvars
    /\ UNCHANGED <<attempt, retry_delay, optimized_path, gemini_response, result,
                   start_time, call_deadline, wake_at>>
    /\ UNCHANGED xvars

\* lines 194-203
BasicRemove ==
    /\ wpc = "basic_remove"
    /\ files' = files \ {BasicPath}
    /\ IF pending # ""
       THEN /\ gemini_response' = pending
            /\ succeeded' = TRUE
            /\ wpc' = "parse"
            /\ UNCHANGED <<err, caught>>
       ELSE /\ err' = "Basic analysis also failed"
            /\ caught' = TRUE
            /\ wpc' = "basic_except"
            /\ UNCHANGED <<gemini_response, succeeded>>
    /\ Late("delete")
    /\ UNCHANGED <<req, clock, created, calls, waits, call_images>>
    /\ UNCHANGED hvars
    /\ UNCHANGED <<attempt, retry_delay, optimized_path, pending, result, start_time,
                   call_deadline, wake_at>>
    /\ UNCHANGED xvars

\* lines 205-207: return generate_failure_response(str(e))
BasicExcept ==
    /\ wpc = "basic_except"
    /\ gemini_response' = generate_failure_response(err)
    /\ wpc' = "parse"
    /\ UNCHANGED <<req, files, clock, created>>
    /\ UNCHANGED hvars
    /\ UNCHANGED <<attempt, retry_delay, optimized_path, err, pending, result,
                   start_time, call_deadline, wake_at>>
    /\ UNCHANGED gvars
    /\ UNCHANGED xvars

\* ---- full_image_analysis, lines 347-389 ----

\* lines 366-373
AnalysisRecord(parsed, analysis_time, user_id) ==
    [dish_prediction |-> parsed.dish_name,
     image_description |-> parsed.visible_ingredients,
     hidden_ingredients |-> parsed.hidden_ingredients,
     nutrition_info |-> parsed.nutrition_info,
     analysis_time |-> analysis_time,
     user_id |-> user_id]

\* ErrorRecord without the error field
ErrorRecordUntagged(e, user_id) ==
    [dish_prediction |-> "Analysis failed: " \o e,
     image_description |-> "Analysis error | 0 | g | " \o e,
     hidden_ingredients |-> "Analysis error | 0 | g | " \o e,
     nutrition_info |-> "Calories | 0 | kcal | Analysis failed: " \o e,
     analysis_time |-> 0,
     user_id |-> user_id]

\* lines 381-389 (the nutrition string is built with "\\n": a backslash and an n)
ErrorRecord(e, user_id) ==
    [dish_prediction |-> "Analysis failed: " \o e,
     image_description |-> "Analysis error | 0 | g | " \o e,
     hidden_ingredients |-> "Analysis error | 0 | g | " \o e,
     nutrition_info |->
        "Calories | 0 | kcal | Analysis failed: " \o e
        \o "\\nProtein | 0 | g | Analysis failed: " \o e
        \o "\\nFat | 0 | g | Analysis failed: " \o e
        \o "\\nCarbohydrates | 0 | g | Analysis failed: " \o e
        \o "\\nFiber | 0 | g | Analysis failed: " \o e
        \o "\\nSugar | 0 | g | Analysis failed: " \o e
        \o "\\nSodium | 0 | mg | Analysis failed: " \o e,
     analysis_time |-> 0,
     user_id |-> user_id,
     error |-> e]

\* lines 347-373: parse and return
WorkerParse ==
    /\ wpc = "parse"
    /\ result' = AnalysisRecord(parse_dynamic_response(gemini_response),
                                clock - start_time, req.user_id)
    /\ wpc' = "done"
    /\ UNCHANGED <<req, files, clock, created>>
    /\ UNCHANGED hvars
    /\ UNCHANGED <<attempt, retry_delay, optimized_path, err, pending, gemini_response,
                   start_time, call_deadline, wake_at>>
    /\ UNCHANGED gvars
    /\ UNCHANGED xvars

\* lines 375-389: the handler of full_image_analysis
WorkerFails ==
    /\ wpc = "fia_except"
    /\ result' = ErrorRecord(err, req.user_id)
    /\ wpc' = "done"
    /\ UNCHANGED <<req, files, clock, created>>
    /\ UNCHANGED hvars
    /\ UNCHANGED <<attempt, retry_delay, optimized_path, err, pending, gemini_response,
                   start_time, call_deadline, wake_at>>
    /\ UNCHANGED gvars
    /\ UNCHANGED xvars

(***************************************************************************)
(* src/app.py analyze, lines 234-296: the handler waits for the future     *)
(***************************************************************************)

\* lines 254-256
LooksFailed(dish_prediction) ==
    \/ StartsWith(Lower(dish_prediction), "analysis failed")
    \/ StartsWith(Lower(dish_prediction), "could not identify")
    \/ StartsWith(Lower(dish_prediction), "unable to analyze")

\* AnalysisFailedBody handing the failed record itself to the caller
AnalysisFailedPassThrough(r) == r

\* lines 248-251
AnalysisFailedBody(r) ==
    [error |-> "Analysis failed: " \o r.error,
     suggestion |-> "Please try with a clearer image of food"]

\* lines 238-251: the result carries "error"
HandlerResultError ==
    /\ hpc = "waiting"
    /\ wpc = "done"
    /\ "error" \in DOMAIN result
    /\ files' = files \ {image_path}
    /\ Respond(500, AnalysisFailedBody(result))
    /\ UNCHANGED <<req, image_path, is_valid, timed_out, clock, created>>
    /\ UNCHANGED wvars
    /\ UNCHANGED gvars
    /\ UNCHANGED xvars

\* lines 253-264: the dish name reads like a failure
HandlerResultUnable ==
    /\ hpc = "waiting"
    /\ wpc = "done"
    /\ "error" \notin DOMAIN result
    /\ LooksFailed(result.dish_prediction)
    /\ files' = files \ {image_path}
    /\ Respond(422, [error |-> "Unable to analyze this image",
                     suggestion |-> "Please ensure the image clearly shows food items"])
    /\ UNCHANGED <<req, image_path, is_valid, timed_out, clock, created>>
    /\ UNCHANGED wvars
    /\ UNCHANGED gvars
    /\ UNCHANGED xvars

\* lines 277-296: result["user_id"] = user_id, clean up, jsonify(result), 200
HandlerResultOK ==
    /\ hpc = "waiting"
    /\ wpc = "done"
    /\ "error" \notin DOMAIN result
    /\ ~LooksFailed(result.dish_prediction)
    /\ files' = files \ {image_path}
    /\ Respond(200, [result EXCEPT !.user_id = req.user_id])
    /\ UNCHANGED <<req, image_path, is_valid, timed_out, clock, created>>
    /\ UNCHANGED wvars
    /\ UNCHANGED gvars
    /\ UNCHANGED xvars

\* lines 238 and 266-271: future.result(timeout=90) raises TimeoutError; the
\* except clause removes the upload
HandlerTimeout ==
    /\ hpc = "waiting"
    /\ wpc # "done"
    /\ clock >= AnalyzeTimeout
    /\ timed_out' = TRUE
    /\ files' = files \ {image_path}
    /\ hpc' = "shutdown"
    /\ UNCHANGED <<req, image_path, is_valid, response, clock, created>>
    /\ UNCHANGED wvars
    /\ UNCHANGED gvars
    /\ UNCHANGED xvars

\* TimeoutResponse as a success status
TimeoutResponseOK ==
    [status |-> 200,
     body |-> [error |-> "Analysis timeout",
               suggestion |-> "Please try with a simpler or clearer image"]]

\* lines 272-275
TimeoutResponse ==
    [status |-> 408,
     body |-> [error |-> "Analysis timeout",
               suggestion |-> "Please try with a simpler or clearer image"]]

\* lines 272-275 leaving the with block of line 234: ThreadPoolExecutor.__exit__
\* is shutdown(wait=True), so the return completes when the worker has finished
HandlerTimeoutResponds ==
    /\ hpc = "shutdown"
    /\ wpc = "done"
    /\ Respond(TimeoutResponse.status, TimeoutResponse.body)
    /\ UNCHANGED <<req, files, image_path, is_valid, timed_out, clock, created>>
    /\ UNCHANGED wvars
    /\ UNCHANGED gvars
    /\ UNCHANGED xvars

(***************************************************************************)
(* Time passes while the worker is blocked in a model call or in a sleep,   *)
(* up to the next moment something is due; the local steps take no time    *)
(***************************************************************************)
WorkerBlocked == wpc \in {"calling", "basic_calling", "sleeping"}

Deadlines ==
    (IF hpc = "waiting" THEN {AnalyzeTimeout} ELSE {})
    \cup (IF wpc \in {"calling", "basic_calling"} THEN {call_deadline} ELSE {})
    \cup (IF wpc = "sleeping" THEN {wake_at} ELSE {})

Tick ==
    /\ WorkerBlocked
    /\ \A d \in Deadlines : d > clock
    /\ clock' = CHOOSE d \in Deadlines : \A e \in Deadlines : d <= e
    /\ UNCHANGED <<req, files, created>>
    /\ UNCHANGED hvars
    /\ UNCHANGED wvars
    /\ UNCHANGED gvars
    /\ UNCHANGED xvars

Next ==
    \/ HandlerReject
    \/ HandlerSave
    \/ HandlerSaveFails
    \/ HandlerValidate
    \/ HandlerSubmit
    \/ HandlerResultError
    \/ HandlerResultUnable
    \/ HandlerResultOK
    \/ HandlerTimeout
    \/ HandlerTimeoutResponds
    \/ WorkerExists
    \/ WorkerVerify
    \/ WorkerOpen
    \/ WorkerSaveOptimized
    \/ WorkerReadOptimized
    \/ WorkerCall
    \/ WorkerCallReturns
    \/ WorkerRemoveOptimized
    \/ WorkerExcept
    \/ WorkerWake
    \/ BasicOpen
    \/ BasicSave
    \/ BasicCall
    \/ BasicCallReturns
    \/ BasicRemove
    \/ BasicExcept
    \/ WorkerParse
    \/ WorkerFails
    \/ Tick

Spec == Init /\ [][Next]_vars

(***************************************************************************)
(* Properties of one /analyze request                                      *)
(***************************************************************************)
Responded == hpc = "responded"
WorkerDone == wpc = "done"

\* the fields of an analysis result
ResultFields ==
    {"dish_prediction", "image_description", "hidden_ingredients", "nutrition_info",
     "analysis_time", "user_id"}

\* C1 as stated: one request issues at most 3 model calls in total, and none
\* after an attempt has succeeded.
C1_AtMostThreeCalls ==
    /\ calls <= 3
    /\ succeeded => wpc \in {"parse", "done"}

\* C1 as amended: at most max_retries + 1 = 4 calls (the three attempts, then
\* the one call of the basic analysis, made only after the third attempt has
\* failed); once a call has returned text no further call is issued.
C1_CallBudget ==
    /\ [](calls <= max_retries + 1)
    /\ [](calls = max_retries + 1 => attempt = max_retries - 1 /\ Len(waits) = max_retries - 1)
    /\ [][succeeded => calls' = calls]_vars

\* three failed attempts, then the basic analysis got text with the 4th call
C1_Witness == calls = 4 /\ succeeded /\ WorkerDone

RECURSIVE SumSeq(_)
SumSeq(q) == IF q = << >> THEN 0 ELSE Head(q) + SumSeq(Tail(q))

\* C2: a raised or empty attempt is a failed one; after failed attempt k
\* (k = 1, 2) the worker sleeps 2 then 4 time units before attempt k+1 starts;
\* it does not sleep after the 3rd failed attempt nor after a success.
C2_Backoff ==
    /\ Len(waits) <= 2
    /\ \A k \in 1..Len(waits) : waits[k] = 2 ^ k
    /\ wpc \in {"except", "sleeping"} => ~succeeded
    /\ Len(waits) = attempt + (IF wpc = "sleeping" THEN 1 ELSE 0)
    /\ wpc # "sleeping" => clock - start_time >= SumSeq(waits)
    /\ succeeded \/ wpc \in {"basic_open", "basic_save", "basic_call", "basic_calling",
                            "basic_remove", "basic_except"}
          => Len(waits) = attempt

\* the third attempt starts after both sleeps, 6 time units after the start
C2_Witness == waits = <<2, 4>> /\ wpc = "call" /\ attempt = 2 /\ clock = 6

\* every model call of the request failed: the three attempts and the basic
\* analysis each raised or returned no text
AllCallsFailed == calls = max_retries + 1 /\ ~succeeded /\ wpc \in {"parse", "done"}

\* the messages a failed basic analysis can hand to generate_failure_response
BasicErrors == TransportErrors \cup {"Basic analysis also failed"}

FailureNutrition ==
    "Calories | 0 | kcal | Analysis failed - unable to calculate\n"
    \o "Protein | 0 | g | Analysis failed - unable to calculate\n"
    \o "Fat | 0 | g | Analysis failed - unable to calculate\n"
    \o "Carbohydrates | 0 | g | Analysis failed - unable to calculate\n"
    \o "Fiber | 0 | g | Analysis failed - unable to calculate\n"
    \o "Sugar | 0 | g | Analysis failed - unable to calculate\n"
    \o "Sodium | 0 | mg | Analysis failed - unable to calculate"

BoundaryError(e) ==
    StartsWith(e, "Image file not found: ") \/ StartsWith(e, "Invalid image file: ")

\* C4 as stated: full_image_analysis returns a record with all six fields, and
\* whenever an exception was caught on the way the record carries an error
\* field.
C4_CaughtMeansTagged ==
    WorkerDone =>
        /\ ResultFields \subseteq DOMAIN result
        /\ caught => "error" \in DOMAIN result

\* C4 as amended (full_image_analysis of src/model_pipeline.py): it always
\* returns a record with all six fields; the record carries an error field
\* exactly when the exception reached the function's own handler (the image
\* file is missing or fails verify()), and then no model call was made; an
\* exception caught inside the analysis stage leaves the record untagged.
C4_TaggedAtBoundary ==
    WorkerDone =>
        /\ ResultFields \subseteq DOMAIN result
        /\ DOMAIN result \subseteq ResultFields \cup {"error"}
        /\ result.user_id = req.user_id
        /\ "error" \in DOMAIN result <=> BoundaryError(err)
        /\ "error" \in DOMAIN result =>
              /\ result.error = err
              /\ result.dish_prediction = "Analysis failed: " \o err
              /\ calls = 0
              /\ caught

\* an attempt raised, a later one succeeded: caught, and no error field
C4_Witness ==
    /\ WorkerDone /\ caught /\ succeeded
    /\ "error" \notin DOMAIN result
    /\ calls = 2

C7_TimeoutAbortsWorker ==
    timed_out =>
        /\ late_ops = {}
        /\ hpc = "shutdown" => ENABLED HandlerTimeoutResponds

\* what the claim calls an image that fails validation
FailsValidation(img) ==
    img.integrity = "unreadable" \/ img.width < 100 \/ img.height < 100

C9_AcceptedImagesAllowed ==
    /\ is_valid =>
          /\ req.image.format \in {"JPEG", "PNG", "WEBP"}
          /\ req.image.width >= 100 /\ req.image.height >= 100
    /\ \A img \in call_images :
          /\ img.format \in {"JPEG", "PNG", "WEBP"}
          /\ img.width >= 100 /\ img.height >= 100

\* C10: when the request has finished, every temporary file created for it
\* (the upload, the optimized copies, the copy of the basic analysis) is gone.
C10_TempFilesDeleted ==
    Responded => created \cap files = {}

(***************************************************************************)
(* Two /analyze requests at once (src/app.py line 925: threaded=True).     *)
(* Both uploads are sound 100x100 JPEG images of 1024 bytes; what differs  *)
(* is whose image a file holds.  A file on the disk is [by, of]: the       *)
(* request that wrote it and the request whose image it holds.             *)
(***************************************************************************)
Clients == {1, 2}

\* the values int(time.time()) takes while the two requests are served
Seconds == <<"1718000000", "1718000001">>

\* line 215-216: image_path for an upload saved in second k
UploadPathAt(k) == "/tmp/" \o "image_" \o Seconds[k] \o ".png"

\* src/model_pipeline.py line 94
OptimizedPathOf(path) == Replace(path, ".png", "_opt.jpg")

\* src/model_pipeline.py line 176
BasicPathOf(path) == Replace(path, ".png", "_basic.jpg")

UploadPaths == {UploadPathAt(k) : k \in 1..Len(Seconds)}
Paths ==
    UploadPaths \cup {OptimizedPathOf(p) : p \in UploadPaths}
                \cup {BasicPathOf(p) : p \in UploadPaths}

NoFile == [by |-> 0, of |-> 0]

\* file written by request r holding the image of request o
File(r, o) == [by |-> r, of |-> o]

Present(path) == disk[path] # NoFile

\* the kind of access, when request r touches a file the other request wrote
Cross(r, path, kind) == IF disk[path].by \notin {0, r} THEN {kind} ELSE {}

StartHandler == [pc |-> "start", image_path |-> "", status |-> 0]
StartWorker ==
    [pc |-> "idle", attempt |-> 0, optimized_path |-> "", image |-> 0, image_data |-> 0,
     text |-> FALSE, error |-> FALSE]

ConcurrentInit ==
    /\ req = BaseRequest
    /\ InitRequest
    /\ NoText
    /\ NoMore
    /\ now = 1
    /\ disk = [p \in Paths |-> NoFile]
    /\ handlers = [r \in Clients |-> StartHandler]
    /\ workers = [r \in Clients |-> StartWorker]
    /\ crossed = {}
    /\ sent = [r \in Clients |-> {}]

\* the clock of the machine reaches the next second
NextSecond ==
    /\ now < Len(Seconds)
    /\ now' = now + 1
    /\ UNCHANGED <<disk, handlers, workers, crossed, sent>>
    /\ UNCHANGED <<vars, pvars, evars>>

\* ---- src/app.py analyze ----

\* lines 215-217: filename from the current second, image_file.save(image_path)
SaveUpload(r) ==
    /\ handlers[r].pc = "start"
    /\ LET path == UploadPathAt(now)
       IN  /\ handlers' = [handlers EXCEPT ![r] = [@ EXCEPT !.pc = "validate",
                                                           !.image_path = path]]
           /\ disk' = [disk EXCEPT ![path] = File(r, r)]
           /\ crossed' = crossed \cup Cross(r, path, "overwrite")
    /\ UNCHANGED <<now, workers, sent>>
    /\ UNCHANGED <<vars, pvars, evars>>

\* lines 221-228: validate_image_for_analysis opens image_path; a missing file
\* is "Image validation failed", the remove of line 225 then fails silently
Validate(r) ==
    /\ handlers[r].pc = "validate"
    /\ LET path == handlers[r].image_path
       IN  /\ IF Present(path)
              THEN handlers' = [handlers EXCEPT ![r] = [@ EXCEPT !.pc = "submit"]]
              ELSE handlers' = [handlers EXCEPT ![r] = [@ EXCEPT !.pc = "responded",
                                                                !.status = 400]]
           /\ crossed' = crossed \cup Cross(r, path, "read")
    /\ UNCHANGED <<now, disk, workers, sent>>
    /\ UNCHANGED <<vars, pvars, evars>>

\* lines 234-235
Submit(r) ==
    /\ handlers[r].pc = "submit"
    /\ handlers' = [handlers EXCEPT ![r] = [@ EXCEPT !.pc = "waiting"]]
    /\ workers' = [workers EXCEPT ![r] = [@ EXCEPT !.pc = "exists"]]
    /\ UNCHANGED <<now, disk, crossed, sent>>
    /\ UNCHANGED <<vars, pvars, evars>>

\* lines 238-296: the future has a result; the upload is removed (lines 243,
\* 258, 290) and the status follows from the result
Answer(r) ==
    /\ handlers[r].pc = "waiting"
    /\ workers[r].pc = "done"
    /\ LET path == handlers[r].image_path
       IN  /\ disk' = [disk EXCEPT ![path] = NoFile]
           /\ crossed' = crossed \cup Cross(r, path, "delete")
    /\ handlers' = [handlers EXCEPT ![r] =
                       [@ EXCEPT !.pc = "responded",
                                 !.status = IF workers[r].error THEN 500 ELSE 200]]
    /\ UNCHANGED <<now, workers, sent>>
    /\ UNCHANGED <<vars, pvars, evars>>

\* lines 238, 266-271: future.result times out while the worker is blocked
TimeoutFires(r) ==
    /\ handlers[r].pc = "waiting"
    /\ workers[r].pc \in {"calling", "basic_calling", "sleeping"}
    /\ LET path == handlers[r].image_path
       IN  /\ disk' = [disk EXCEPT ![path] = NoFile]
           /\ crossed' = crossed \cup Cross(r, path, "delete")
    /\ handlers' = [handlers EXCEPT ![r] = [@ EXCEPT !.pc = "shutdown"]]
    /\ UNCHANGED <<now, workers, sent>>
    /\ UNCHANGED <<vars, pvars, evars>>

\* lines 272-275, once the executor has shut down
TimeoutAnswer(r) ==
    /\ handlers[r].pc = "shutdown"
    /\ workers[r].pc = "done"
    /\ handlers' = [handlers EXCEPT ![r] = [@ EXCEPT !.pc = "responded", !.status = 408]]
    /\ UNCHANGED <<now, disk, workers, crossed, sent>>
    /\ UNCHANGED <<vars, pvars, evars>>

\* ---- src/model_pipeline.py on the worker thread of request r ----

\* workers with the worker of request r replaced
WorkerBecomes(r, w) == workers' = [workers EXCEPT ![r] = w]

\* full_image_analysis lines 334-335: os.path.exists(image_path)
Exists(r) ==
    /\ workers[r].pc = "exists"
    /\ LET path == handlers[r].image_path
       IN  /\ IF Present(path)
              THEN WorkerBecomes(r, [workers[r] EXCEPT !.pc = "verify"])
              ELSE WorkerBecomes(r, [workers[r] EXCEPT !.pc = "done", !.error = TRUE])
           /\ crossed' = crossed \cup Cross(r, path, "read")
    /\ UNCHANGED <<now, disk, handlers, sent>>
    /\ UNCHANGED <<vars, pvars, evars>>

\* lines 337-342: Image.open(image_path).verify()
Verify(r) ==
    /\ workers[r].pc = "verify"
    /\ LET path == handlers[r].image_path
       IN  /\ IF Present(path)
              THEN WorkerBecomes(r, [workers[r] EXCEPT !.pc = "open", !.attempt = 0])
              ELSE WorkerBecomes(r, [workers[r] EXCEPT !.pc = "done", !.error = TRUE])
           /\ crossed' = crossed \cup Cross(r, path, "read")
    /\ UNCHANGED <<now, disk, handlers, sent>>
    /\ UNCHANGED <<vars, pvars, evars>>

\* analyze_image_with_gemini_dynamic lines 83-91: the image is loaded
OpenImage(r) ==
    /\ workers[r].pc = "open"
    /\ LET path == handlers[r].image_path
       IN  /\ IF Present(path)
              THEN WorkerBecomes(r, [workers[r] EXCEPT !.pc = "save_opt",
                                                       !.image = disk[path].of])
              ELSE WorkerBecomes(r, [workers[r] EXCEPT !.pc = "except"])
           /\ crossed' = crossed \cup Cross(r, path, "read")
    /\ UNCHANGED <<now, disk, handlers, sent>>
    /\ UNCHANGED <<vars, pvars, evars>>

\* lines 94-95: image.save(optimized_path, 'JPEG', quality=85)
SaveOptimized(r) ==
    /\ workers[r].pc = "save_opt"
    /\ LET path == OptimizedPathOf(handlers[r].image_path)
       IN  /\ WorkerBecomes(r, [workers[r] EXCEPT !.pc = "read_opt",
                                                  !.optimized_path = path])
           /\ disk' = [disk EXCEPT ![path] = File(r, workers[r].image)]
           /\ crossed' = crossed \cup Cross(r, path, "overwrite")
    /\ UNCHANGED <<now, handlers, sent>>
    /\ UNCHANGED <<vars, pvars, evars>>

\* lines 98-99: the optimized copy is read and encoded
ReadOptimized(r) ==
    /\ workers[r].pc = "read_opt"
    /\ LET path == workers[r].optimized_path
       IN  /\ IF Present(path)
              THEN WorkerBecomes(r, [workers[r] EXCEPT !.pc = "call",
                                                       !.image_data = disk[path].of])
              ELSE WorkerBecomes(r, [workers[r] EXCEPT !.pc = "except"])
           /\ crossed' = crossed \cup Cross(r, path, "read")
    /\ UNCHANGED <<now, disk, handlers, sent>>
    /\ UNCHANGED <<vars, pvars, evars>>

\* lines 112-116: generate_content is called with image_data
Call(r) ==
    /\ workers[r].pc = "call"
    /\ WorkerBecomes(r, [workers[r] EXCEPT !.pc = "calling"])
    /\ sent' = [sent EXCEPT ![r] = @ \cup {workers[r].image_data}]
    /\ UNCHANGED <<now, disk, handlers, crossed>>
    /\ UNCHANGED <<vars, pvars, evars>>

\* the call returns a text, returns no text, or raises
CallReturns(r) ==
    /\ workers[r].pc = "calling"
    /\ \E outcome \in {"text", "empty", "raise"} :
          IF outcome = "raise"
          THEN WorkerBecomes(r, [workers[r] EXCEPT !.pc = "except"])
          ELSE WorkerBecomes(r, [workers[r] EXCEPT !.pc = "remove_opt",
                                                   !.text = (outcome = "text")])
    /\ UNCHANGED <<now, disk, handlers, crossed, sent>>
    /\ UNCHANGED <<vars, pvars, evars>>

\* lines 118-128: os.remove(optimized_path) if it exists, then response.text
RemoveOptimized(r) ==
    /\ workers[r].pc = "remove_opt"
    /\ LET path == workers[r].optimized_path
       IN  /\ disk' = [disk EXCEPT ![path] = NoFile]
           /\ crossed' = crossed \cup Cross(r, path, "delete")
    /\ WorkerBecomes(r, [workers[r] EXCEPT !.pc = IF workers[r].text THEN "done"
                                                   ELSE "except"])
    /\ UNCHANGED <<now, handlers, sent>>
    /\ UNCHANGED <<vars, pvars, evars>>

\* lines 130-145: the except clause of an attempt
Except(r) ==
    /\ workers[r].pc = "except"
    /\ LET path == workers[r].optimized_path
       IN  IF path # ""
           THEN /\ disk' = [disk EXCEPT ![path] = NoFile]
                /\ crossed' = crossed \cup Cross(r, path, "delete")
           ELSE UNCHANGED <<disk, crossed>>
    /\ WorkerBecomes(r, [workers[r] EXCEPT !.pc = IF RetriesLeft(workers[r].attempt)
                                                   THEN "sleeping" ELSE "basic_open"])
    /\ UNCHANGED <<now, handlers, sent>>
    /\ UNCHANGED <<vars, pvars, evars>>

\* lines 141-142 and 80: time.sleep returns, the next attempt starts
Wake(r) ==
    /\ workers[r].pc = "sleeping"
    /\ WorkerBecomes(r, [workers[r] EXCEPT !.pc = "open", !.attempt = @ + 1])
    /\ UNCHANGED <<now, disk, handlers, crossed, sent>>
    /\ UNCHANGED <<vars, pvars, evars>>

\* attempt_basic_analysis lines 169-173
BasicOpenImage(r) ==
    /\ workers[r].pc = "basic_open"
    /\ LET path == handlers[r].image_path
       IN  /\ IF Present(path)
              THEN WorkerBecomes(r, [workers[r] EXCEPT !.pc = "basic_save",
                                                       !.image = disk[path].of])
              ELSE WorkerBecomes(r, [workers[r] EXCEPT !.pc = "done"])
           /\ crossed' = crossed \cup Cross(r, path, "read")
    /\ UNCHANGED <<now, disk, handlers, sent>>
    /\ UNCHANGED <<vars, pvars, evars>>

\* lines 176-177: image.save(temp_path, 'JPEG', quality=75)
BasicSaveCopy(r) ==
    /\ workers[r].pc = "basic_save"
    /\ LET path == BasicPathOf(handlers[r].image_path)
       IN  /\ disk' = [disk EXCEPT ![path] = File(r, workers[r].image)]
           /\ crossed' = crossed \cup Cross(r, path, "overwrite")
    /\ WorkerBecomes(r, [workers[r] EXCEPT !.pc = "basic_call"])
    /\ UNCHANGED <<now, handlers, sent>>
    /\ UNCHANGED <<vars, pvars, evars>>

\* lines 179-192: the copy is read and sent
BasicCallModel(r) ==
    /\ workers[r].pc = "basic_call"
    /\ LET path == BasicPathOf(handlers[r].image_path)
       IN  /\ IF Present(path)
              THEN /\ WorkerBecomes(r, [workers[r] EXCEPT !.pc = "basic_calling",
                                                          !.image_data = disk[path].of])
                   /\ sent' = [sent EXCEPT ![r] = @ \cup {disk[path].of}]
              ELSE /\ WorkerBecomes(r, [workers[r] EXCEPT !.pc = "done"])
                   /\ UNCHANGED sent
           /\ crossed' = crossed \cup Cross(r, path, "read")
    /\ UNCHANGED <<now, disk, handlers>>
    /\ UNCHANGED <<vars, pvars, evars>>

\* lines 188-207: the call returns (then the copy is removed, lines 194-198)
\* or raises (then it is left behind, lines 205-207)
BasicReturns(r) ==
    /\ workers[r].pc = "basic_calling"
    /\ LET path == BasicPathOf(handlers[r].image_path)
       IN  \E outcome \in {"text", "empty", "raise"} :
              IF outcome = "raise"
              THEN UNCHANGED <<disk, crossed>>
              ELSE /\ disk' = [disk EXCEPT ![path] = NoFile]
                   /\ crossed' = crossed \cup Cross(r, path, "delete")
    /\ WorkerBecomes(r, [workers[r] EXCEPT !.pc = "done"])
    /\ UNCHANGED <<now, handlers, sent>>
    /\ UNCHANGED <<vars, pvars, evars>>

ConcurrentNext ==
    \/ NextSecond
    \/ \E r \in Clients :
          \/ SaveUpload(r)
          \/ Validate(r)
          \/ Submit(r)
          \/ Answer(r)
          \/ TimeoutFires(r)
          \/ TimeoutAnswer(r)
          \/ Exists(r)
          \/ Verify(r)
          \/ OpenImage(r)
          \/ SaveOptimized(r)
          \/ ReadOptimized(r)
          \/ Call(r)
          \/ CallReturns(r)
          \/ RemoveOptimized(r)
          \/ Except(r)
          \/ Wake(r)
          \/ BasicOpenImage(r)
          \/ BasicSaveCopy(r)
          \/ BasicCallModel(r)
          \/ BasicReturns(r)

ConcurrentSpec == ConcurrentInit /\ [][ConcurrentNext]_<<vars, cvars, pvars, evars>>

\* C11: in every interleaving of two /analyze requests neither reads,
\* overwrites or deletes a file the other wrote, and every model call of a
\* request carries that request's own image.
C11_RequestsIndependent ==
    /\ crossed = {}
    /\ \A r \in Clients : sent[r] \subseteq {r}

(***************************************************************************)
(* src/food-backend/model_pipeline.py: parse_to_dict and the number        *)
(* conversions it relies on.  A Python int is [type |-> "int", n |-> v]; a *)
(* float is [type |-> "float", n |-> v, k |-> d], the number v / 10^d with *)
(* d as small as possible; ValueError stands for the exception.            *)
(***************************************************************************)
ValueError == [type |-> "ValueError"]

IsDigit(c) == c \in {"0", "1", "2", "3", "4", "5", "6", "7", "8", "9"}

DigitValue(c) == CHOOSE d \in 0..9 : Ch("0123456789", d + 1) = c

\* digits with single underscores between them: what int() and float() take
IsDigitRun(s) ==
    /\ Len(s) > 0
    /\ IsDigit(Ch(s, 1))
    /\ IsDigit(Ch(s, Len(s)))
    /\ \A i \in 1..Len(s) : IsDigit(Ch(s, i)) \/ Ch(s, i) = "_"
    /\ \A i \in 1..(Len(s) - 1) : ~(Ch(s, i) = "_" /\ Ch(s, i + 1) = "_")

\* the digits of a digit run, underscores left out
RECURSIVE DigitsOf(_)
DigitsOf(s) ==
    IF s = "" THEN ""
    ELSE (IF Ch(s, 1) = "_" THEN "" ELSE Ch(s, 1)) \o DigitsOf(SubSeq(s, 2, Len(s)))

\* the value of a string of digits, given the value of the digits before it
RECURSIVE DigitsValue(_, _)
DigitsValue(s, acc) ==
    IF s = "" THEN acc
    ELSE DigitsValue(SubSeq(s, 2, Len(s)), acc * 10 + DigitValue(Ch(s, 1)))

HasSign(s) == Len(s) > 0 /\ Ch(s, 1) \in {"+", "-"}
Unsigned(s) == IF HasSign(s) THEN SubSeq(s, 2, Len(s)) ELSE s
SignOf(s) == IF HasSign(s) /\ Ch(s, 1) = "-" THEN -1 ELSE 1

\* int(s) for a str s
PyInt(s) ==
    LET t == Strip(s)
    IN  IF IsDigitRun(Unsigned(t))
        THEN [type |-> "int", n |-> SignOf(t) * DigitsValue(DigitsOf(Unsigned(t)), 0)]
        ELSE ValueError

\* 10^e
RECURSIVE Pow10(_)
Pow10(e) == IF e = 0 THEN 1 ELSE 10 * Pow10(e - 1)

\* n / 10^k with k as small as possible
RECURSIVE Reduced(_, _)
Reduced(n, k) ==
    IF k < 0 THEN Reduced(n * Pow10(-k), 0)
    ELSE IF k > 0 /\ n % 10 = 0 THEN Reduced(n \div 10, k - 1)
    ELSE [type |-> "float", n |-> n, k |-> k]

\* float(s) for a str s that holds a "." (the only strings parse_to_dict hands
\* to float): [sign] digits "." [digits] or "." digits, then an optional
\* exponent
PyFloat(s) ==
    LET t    == Unsigned(Strip(s))
        epos == {i \in 1..Len(t) : Ch(t, i) \in {"e", "E"}}
        cut  == IF epos = {} THEN Len(t) + 1 ELSE CHOOSE i \in epos : \A j \in epos : i <= j
        mant == SubSeq(t, 1, cut - 1)
        expo == SubSeq(t, cut + 1, Len(t))
        dots == {i \in 1..Len(mant) : Ch(mant, i) = "."}
        dot  == CHOOSE i \in dots : TRUE
        whole == SubSeq(mant, 1, dot - 1)
        frac  == SubSeq(mant, dot + 1, Len(mant))
        e    == IF epos = {} THEN 0
                ELSE SignOf(expo) * DigitsValue(DigitsOf(Unsigned(expo)), 0)
    IN  IF /\ Cardinality(dots) = 1
           /\ whole = "" \/ IsDigitRun(whole)
           /\ frac = "" \/ IsDigitRun(frac)
           /\ whole # "" \/ frac # ""
           /\ epos = {} \/ IsDigitRun(Unsigned(expo))
        THEN LET n == SignOf(Strip(s)) * DigitsValue(DigitsOf(whole) \o DigitsOf(frac), 0)
             IN  Reduced(n, Len(DigitsOf(frac)) - e)
        ELSE ValueError

\* line 109: float(parts[1]) if '.' in parts[1] else int(parts[1])
numeric_value(quantity) ==
    IF Contains(quantity, ".") THEN PyFloat(quantity) ELSE PyInt(quantity)

\* text.splitlines(), for texts whose only line break is "\n": no empty last
\* line after a final "\n", no line at all for the empty text
SplitLines(text) ==
    IF text = "" THEN << >>
    ELSE IF Ch(text, Len(text)) = "\n" THEN Split(SubSeq(text, 1, Len(text) - 1), "\n")
    ELSE Split(text, "\n")

\* line 106: [p.strip() for p in line.split('|')]
Parts(line) == [i \in 1..Len(Split(line, "|")) |-> Strip(Split(line, "|")[i])]

\* Qualifies without the conversion of the quantity
QualifiesByColumns(line) == Len(Parts(line)) = 4

\* lines 107-115: the line gives an entry of data_dict
Qualifies(line) == Len(Parts(line)) = 4 /\ numeric_value(Parts(line)[2]) # ValueError

\* lines 110-114: the value stored under parts[0]
Entry(parts) ==
    [quantity |-> numeric_value(parts[2]), unit |-> parts[3], reasoning |-> parts[4]]

\* parse_to_dict(text), lines 103-117.  The dict is [keys, at]: its keys in
\* insertion order and the value under each; a key assigned again keeps its
\* place and takes the new value
RECURSIVE ParseToDictFrom(_, _, _)
ParseToDictFrom(data_dict, lines, i) ==
    IF i > Len(lines) THEN data_dict
    ELSE LET parts == Parts(lines[i])
         IN  ParseToDictFrom(
                 IF Qualifies(lines[i])
                 THEN [keys |-> IF \E k \in 1..Len(data_dict.keys) : data_dict.keys[k] = parts[1]
                                THEN data_dict.keys
                                ELSE Append(data_dict.keys, parts[1]),
                       at   |-> [n \in DOMAIN data_dict.at \cup {parts[1]} |->
                                    IF n = parts[1] THEN Entry(parts) ELSE data_dict.at[n]]]
                 ELSE data_dict,
                 lines, i + 1)

parse_to_dict(text) ==
    ParseToDictFrom([keys |-> << >>, at |-> << >>], SplitLines(text), 1)

(***************************************************************************)
(* The parsers on their own: the texts a model call can return, and what   *)
(* becomes of each                                                         *)
(***************************************************************************)

\* the longest section of a text: lines under one header
MaxSectionLines == 2

\* lines a model puts under VISIBLE INGREDIENTS: well formed, with a quantity
\* that is no number, with three fields
VisibleLines ==
    <<"Rice | 200 | g | visible in bowl", "Salt | abc | g | seasoning", "Oil | 5 | ml">>

\* under HIDDEN INGREDIENTS
HiddenLines == <<"Butter | 10.5 | g | sheen on the rice">>

\* under NUTRITION ANALYSIS: a required nutrient, the same nutrient again, a
\* nutrient outside the required ones, a required one in lower case
NutritionLines ==
    <<"Calories | 300 | kcal | estimate", "Calories | 320 | kcal | second estimate",
      "Iron | 2 | mg | from the rice", "sodium | 1.5 | mg | seasoning">>

\* the sequences of at most n elements of the sequence pool
RECURSIVE SeqsUpTo(_, _)
SeqsUpTo(pool, n) ==
    IF n = 0 THEN {<< >>}
    ELSE SeqsUpTo(pool, n - 1)
         \cup {Append(q, pool[i]) : q \in SeqsUpTo(pool, n - 1), i \in 1..Len(pool)}

\* a section as the prompt asks for it: the header, then the lines
Section(header, lines) ==
    IF lines = << >> THEN "" ELSE header \o "\n" \o Join(lines, "\n") \o "\n\n"

\* a response in the format of the prompt (src/model_pipeline.py lines 45-68)
SectionedText(visible, hidden, nutrition) ==
    "DISH NAME: Fried rice\n\n"
    \o Section("VISIBLE INGREDIENTS:", visible)
    \o Section("HIDDEN INGREDIENTS:", hidden)
    \o Section("NUTRITION ANALYSIS:", nutrition)

\* texts of single lines and of no line, outside every section
LooseTexts ==
    { "",
      "Rice | 200 | g | visible in bowl\nBadLine without pipes\nSalt | abc | g | seasoning",
      "Calories | 300 | kcal | estimate",
      "Rice | 200 | g | first\nRice | 250.0 | g | second\nrice | 1_000 | g | third",
      "Rice | 200 | g | before any header\nHIDDEN INGREDIENTS:\nOil | 5 | ml | sheen\n\nvisible ingredients\nSalt | 1 | g | seasoning",
      generate_failure_response("504 Deadline Exceeded") }

\* the texts to parse: the loose ones, the responses of the single-request
\* runs, and the sectioned texts in which at most one section has more than
\* one line
ParserTexts ==
    LooseTexts
    \cup ResponseTexts
    \cup {SectionedText(v, h, n) : v \in SeqsUpTo(VisibleLines, MaxSectionLines),
                                   h \in SeqsUpTo(HiddenLines, 1),
                                   n \in SeqsUpTo(NutritionLines, 1)}
    \cup {SectionedText(v, h, n) : v \in SeqsUpTo(VisibleLines, 1),
                                   h \in SeqsUpTo(HiddenLines, MaxSectionLines),
                                   n \in SeqsUpTo(NutritionLines, 1)}
    \cup {SectionedText(v, h, n) : v \in SeqsUpTo(VisibleLines, 1),
                                   h \in SeqsUpTo(HiddenLines, 1),
                                   n \in SeqsUpTo(NutritionLines, MaxSectionLines)}

ParserInit ==
    /\ req = BaseRequest
    /\ InitRequest
    /\ NoRequests
    /\ NoMore
    /\ ppc = "text"
    /\ response_text \in ParserTexts
    /\ parsed_dict = NoResult
    /\ parsed_text = NoResult
    /\ record = NoResult
    /\ nutrition_again = NoResult
    /\ nutrition_bare = NoResult
    /\ ingredients_again = NoResult

\* src/food-backend/model_pipeline.py parse_to_dict, lines 103-117
ParseToDict ==
    /\ ppc = "text"
    /\ parsed_dict' = parse_to_dict(response_text)
    /\ ppc' = "dict"
    /\ UNCHANGED <<response_text, parsed_text, record, nutrition_again, nutrition_bare,
                   ingredients_again>>
    /\ UNCHANGED <<vars, cvars, evars>>

\* src/model_pipeline.py full_image_analysis, lines 356-373: the text is
\* parsed and the record built from it
ParseResponse ==
    /\ ppc = "dict"
    /\ parsed_text' = parse_dynamic_response(response_text)
    /\ record' = AnalysisRecord(parsed_text', 0, req.user_id)
    /\ ppc' = "parsed"
    /\ UNCHANGED <<response_text, parsed_dict, nutrition_again, nutrition_bare,
                   ingredients_again>>
    /\ UNCHANGED <<vars, cvars, evars>>

\* the nutrition lines of a result under the header the parser looks for
NutritionText(r) == "NUTRITION ANALYSIS:\n" \o r.nutrition_info

\* the ingredient lines of a result under their headers
IngredientsText(r) ==
    "VISIBLE INGREDIENTS:\n" \o r.image_description \o "\n"
    \o "HIDDEN INGREDIENTS:\n" \o r.hidden_ingredients

\* the nutrition lines are parsed again, under their header and as they are
ReparseNutrition ==
    /\ ppc = "parsed"
    /\ nutrition_again' = parse_dynamic_response(NutritionText(record))
    /\ nutrition_bare' = parse_dynamic_response(record.nutrition_info)
    /\ ppc' = "nutrition"
    /\ UNCHANGED <<response_text, parsed_dict, parsed_text, record, ingredients_again>>
    /\ UNCHANGED <<vars, cvars, evars>>

\* the ingredient lines are parsed again
ReparseIngredients ==
    /\ ppc = "nutrition"
    /\ ingredients_again' = parse_dynamic_response(IngredientsText(record))
    /\ ppc' = "done"
    /\ UNCHANGED <<response_text, parsed_dict, parsed_text, record, nutrition_again,
                   nutrition_bare>>
    /\ UNCHANGED <<vars, cvars, evars>>

ParserNext ==
    \/ ParseToDict
    \/ ParseResponse
    \/ ReparseNutrition
    \/ ReparseIngredients

ParserSpec == ParserInit /\ [][ParserNext]_<<vars, cvars, pvars, evars>>

(***************************************************************************)
(* Properties of the parsers                                               *)
(***************************************************************************)
DictDone == ppc \notin {"idle", "text"}
ParseDone == ppc \in {"parsed", "nutrition", "done"}

\* the lines of the text as parse_to_dict sees them
InputLines == SplitLines(response_text)

\* a quantity as the line format writes it: digits, at most one "." among
\* them, no sign, no separator, no exponent
IsPlainNumber(s) ==
    /\ \E i \in 1..Len(s) : IsDigit(Ch(s, i))
    /\ \A i \in 1..Len(s) : IsDigit(Ch(s, i)) \/ Ch(s, i) = "."
    /\ Cardinality({i \in 1..Len(s) : Ch(s, i) = "."}) <= 1

\* the lines with exactly 4 columns and a plain number as quantity
WellFormed == {i \in 1..Len(InputLines) :
                  Len(Parts(InputLines[i])) = 4 /\ IsPlainNumber(Parts(InputLines[i])[2])}

\* the lines with exactly 4 columns whose quantity int() or float() converts
Converted == {i \in 1..Len(InputLines) :
                 /\ Len(Parts(InputLines[i])) = 4
                 /\ LET q == Parts(InputLines[i])[2]
                    IN  IF Contains(q, ".") THEN PyFloat(q) # ValueError
                        ELSE PyInt(q) # ValueError}

RiceText ==
    "Rice | 200 | g | visible in bowl\nBadLine without pipes\nSalt | abc | g | seasoning"

\* C12 as stated: parse_to_dict returns exactly as many records as the text
\* has lines with exactly 4 columns and a numeric quantity, one record for
\* each such line, and nothing for any other line.
C12_OneRecordPerLine ==
    DictDone =>
        /\ Len(parsed_dict.keys) = Cardinality(WellFormed)
        /\ \A i \in WellFormed : Parts(InputLines[i])[1] \in DOMAIN parsed_dict.at
        /\ \A n \in DOMAIN parsed_dict.at :
              \E i \in WellFormed : Parts(InputLines[i])[1] = n

\* C12 as amended: parse_to_dict returns one record for each distinct name
\* among the lines that have exactly 4 columns and a quantity int() or
\* float() converts (a plain number always is one; so is a number with a
\* sign, with underscores between digits or, beside a ".", with an exponent);
\* the records come in the order the names first occur; a line with another
\* column count or a quantity that is not converted adds no record.  The
\* Rice / BadLine / Salt-abc text gives exactly the Rice record, quantity 200.
C12_OneRecordPerName ==
    DictDone =>
        /\ WellFormed \subseteq Converted
        /\ DOMAIN parsed_dict.at = {Parts(InputLines[i])[1] : i \in Converted}
        /\ Len(parsed_dict.keys) = Cardinality(DOMAIN parsed_dict.at)
        /\ \A k \in 1..Len(parsed_dict.keys) :
              /\ parsed_dict.keys[k] \in DOMAIN parsed_dict.at
              /\ \E i \in Converted :
                    /\ Parts(InputLines[i])[1] = parsed_dict.keys[k]
                    /\ \A j \in Converted : j < i =>
                          \E m \in 1..k : parsed_dict.keys[m] = Parts(InputLines[j])[1]
        /\ response_text = RiceText =>
              parsed_dict = [keys |-> <<"Rice">>,
                             at |-> [Rice |-> [quantity |-> [type |-> "int", n |-> 200],
                                               unit |-> "g",
                                               reasoning |-> "visible in bowl"]]]

\* the Rice text has been parsed: one record out of three lines
C12_Witness ==
    /\ DictDone
    /\ response_text = RiceText
    /\ Len(InputLines) = 3
    /\ parsed_dict.keys = <<"Rice">>

\* the lines of a block of text
LinesOf(block) == Split(block, "\n")

\* the name field of a line, in lower case
NameOf(line) == Lower(Strip(Split(line, "|")[1]))

\* the names of the lines of a block, in order
NamesOf(block) == [i \in 1..Len(LinesOf(block)) |-> NameOf(LinesOf(block)[i])]

\* how often a name occurs in a block
Occurrences(block, name) ==
    Cardinality({i \in 1..Len(LinesOf(block)) : NamesOf(block)[i] = Lower(name)})

SevenNutrients ==
    {"Calories", "Protein", "Fat", "Carbohydrates", "Fiber", "Sugar", "Sodium"}

\* C13: for every input text the nutrition block parse_dynamic_response
\* returns has at least 7 lines and, for each of the seven required nutrients,
\* a line whose name field is that nutrient, compared without case.
C13_NutritionComplete ==
    ParseDone =>
        /\ Len(LinesOf(parsed_text.nutrition_info)) >= 7
        /\ \A n \in SevenNutrients : Occurrences(parsed_text.nutrition_info, n) >= 1

\* a text whose only nutrition line is sodium in lower case: six lines are
\* added, the model's own line counts as Sodium
C13_Witness ==
    /\ ParseDone
    /\ response_text = SectionedText(<< >>, << >>, <<"sodium | 1.5 | mg | seasoning">>)
    /\ LinesOf(parsed_text.nutrition_info)[1] = "sodium | 1.5 | mg | seasoning"
    /\ Len(LinesOf(parsed_text.nutrition_info)) = 7

\* C14: in the nutrition output of the parser every required nutrient name
\* appears exactly once, for every input text, also when the model repeats a
\* nutrient line.
C14_EachNutrientOnce ==
    ParseDone =>
        \A n \in SevenNutrients : Occurrences(parsed_text.nutrition_info, n) = 1

\* the last of the converted lines that carry a name
LastWith(name) ==
    CHOOSE i \in Converted :
        /\ Parts(InputLines[i])[1] = name
        /\ \A j \in Converted : Parts(InputLines[j])[1] = name => j <= i

\* parse_to_dict keeps, for every name, the values of the last line with it
LastOccurrenceWinsInDict ==
    DictDone =>
        \A name \in DOMAIN parsed_dict.at :
            parsed_dict.at[name] = Entry(Parts(InputLines[LastWith(name)]))

\* the blocks of lines of a result
Blocks(r) == {r.image_description, r.hidden_ingredients, r.nutrition_info}

\* C15: when the text has two qualifying lines with the same nutrient or
\* ingredient name, the parsed output holds a single record for that name,
\* with the values of the last occurrence: in the mapping parse_to_dict
\* returns, and in every block of the result of the pipeline.
C15_LastOccurrenceWins ==
    /\ LastOccurrenceWinsInDict
    /\ ParseDone =>
          \A block \in Blocks(record) :
              \A i \in 1..Len(LinesOf(block)) :
                  Cardinality({j \in 1..Len(LinesOf(block)) :
                                  NamesOf(block)[j] = NamesOf(block)[i]}) = 1

CaloriesLine == "Calories | 300 | kcal | estimate"

\* the six lines added after a Calories line
SixSynthesized ==
    <<"Protein | 0 | g | Not determined from image",
      "Fat | 0 | g | Not determined from image",
      "Carbohydrates | 0 | g | Not determined from image",
      "Fiber | 0 | g | Not determined from image",
      "Sugar | 0 | g | Not determined from image",
      "Sodium | 0 | mg | Not determined from image">>

\* the texts whose nutrition section holds the Calories line and nothing else
OnlyCaloriesSection ==
    {SectionedText(v, h, <<CaloriesLine>>) : v \in SeqsUpTo(VisibleLines, MaxSectionLines),
                                             h \in SeqsUpTo(HiddenLines, MaxSectionLines)}

\* C16 as stated: for a text that contains only the line
\* 'Calories | 300 | kcal | estimate' the nutrition output has exactly 7
\* records, the Calories record unchanged (300) and then the six others
\* synthesized with 0 and a not-determined reasoning.
C16_CaloriesLineKept ==
    ParseDone /\ (response_text = CaloriesLine \/ response_text \in OnlyCaloriesSection) =>
        LinesOf(parsed_text.nutrition_info) = <<CaloriesLine>> \o SixSynthesized

\* C16 as amended: when the line stands alone under a NUTRITION ANALYSIS
\* header, the nutrition output is the line unchanged followed by Protein,
\* Fat, Carbohydrates, Fiber, Sugar and Sodium with value 0 and the reasoning
\* "Not determined from image": 7 records.  When the text is the line alone,
\* without the header, the line is not taken as a nutrition line: all 7
\* records are synthesized, Calories with value 0 first, and the line becomes
\* the dish name.
C16_CaloriesUnderHeader ==
    /\ ParseDone /\ response_text \in OnlyCaloriesSection =>
          LinesOf(parsed_text.nutrition_info) = <<CaloriesLine>> \o SixSynthesized
    /\ ParseDone /\ response_text = CaloriesLine =>
          /\ LinesOf(parsed_text.nutrition_info)
                = <<"Calories | 0 | kcal | Not determined from image">> \o SixSynthesized
          /\ parsed_text.dish_name = CaloriesLine

C16_Witness ==
    /\ ParseDone
    /\ response_text = SectionedText(<< >>, << >>, <<CaloriesLine>>)
    /\ LinesOf(parsed_text.nutrition_info)[1] = CaloriesLine
    /\ LinesOf(parsed_text.nutrition_info)[7] = "Sodium | 0 | mg | Not determined from image"

SevenSynthesized ==
    <<"Calories | 0 | kcal | Not determined from image">> \o SixSynthesized

\* C17 as stated: for the empty text the parser returns all 7 nutrients
\* synthesized with the value 0, and no record at all for the visible and
\* for the hidden ingredients; no field of the result is missing.
C17_EmptyTextNoIngredients ==
    ParseDone /\ response_text = "" =>
        /\ DOMAIN parsed_text
              = {"dish_name", "visible_ingredients", "hidden_ingredients", "nutrition_info"}
        /\ LinesOf(parsed_text.nutrition_info) = SevenSynthesized
        /\ parsed_text.visible_ingredients = ""
        /\ parsed_text.hidden_ingredients = ""

\* C17 as amended: for the empty text the parser returns all 7 nutrients
\* synthesized with the value 0, the dish name "Unidentified food item", and
\* one placeholder record for the visible and one for the hidden
\* ingredients; no field of the result is missing or empty.
C17_EmptyTextDefaults ==
    ParseDone /\ response_text = "" =>
        /\ DOMAIN parsed_text
              = {"dish_name", "visible_ingredients", "hidden_ingredients", "nutrition_info"}
        /\ \A f \in DOMAIN parsed_text : parsed_text[f] # ""
        /\ LinesOf(parsed_text.nutrition_info) = SevenSynthesized
        /\ parsed_text.dish_name = "Unidentified food item"
        /\ parsed_text.visible_ingredients
              = "Food item visible | 0 | g | Could not identify specific ingredients"
        /\ parsed_text.hidden_ingredients
              = "No hidden ingredients identified | 0 | g | Could not determine cooking method"

C17_Witness ==
    /\ ParseDone
    /\ response_text = ""
    /\ Len(LinesOf(parsed_text.nutrition_info)) = 7
    /\ Len(LinesOf(parsed_text.visible_ingredients)) = 1

NutritionReparsed == ppc \in {"nutrition", "done"}

\* the names of a block, as a set
NameSet(block) == {NamesOf(block)[i] : i \in DOMAIN NamesOf(block)}

RequiredNames == {Lower(required_nutrients[k]) : k \in 1..Len(required_nutrients)}

\* C18 as stated: parsing the nutrition block of the result a second time
\* yields the same set of nutrient names as the first parse, no name added
\* and no duplicate introduced, for every input text.
C18_ReparseKeepsNames ==
    NutritionReparsed =>
        /\ NameSet(nutrition_bare.nutrition_info) = NameSet(record.nutrition_info)
        /\ \A name \in NameSet(nutrition_bare.nutrition_info) :
              Occurrences(nutrition_bare.nutrition_info, name)
                  <= Occurrences(record.nutrition_info, name)

\* C18 as amended: parsing the nutrition block a second time under a
\* NUTRITION ANALYSIS header yields the same lines, hence the same names, none
\* added and none repeated more often; parsing the block as it is, without
\* the header, yields exactly the seven required names once each: no name is
\* added and no duplicate introduced, but every other name and every value
\* of the first parse is lost.
C18_ReparseUnderHeader ==
    NutritionReparsed =>
        /\ nutrition_again.nutrition_info = record.nutrition_info
        /\ NameSet(nutrition_bare.nutrition_info) = RequiredNames
        /\ RequiredNames \subseteq NameSet(record.nutrition_info)
        /\ \A name \in RequiredNames : Occurrences(nutrition_bare.nutrition_info, name) = 1
        /\ LinesOf(nutrition_bare.nutrition_info) = SevenSynthesized

C18_Witness ==
    /\ NutritionReparsed
    /\ "iron" \in NameSet(record.nutrition_info)
    /\ "iron" \in NameSet(nutrition_again.nutrition_info)
    /\ "iron" \notin NameSet(nutrition_bare.nutrition_info)

IngredientsReparsed == ppc = "done"

HiddenPlaceholder ==
    "No hidden ingredients identified | 0 | g | Could not determine cooking method"

\* C19: the visible and the hidden ingredient lines of a parsed result, put
\* back under their section headers and parsed again, give the same lines in
\* the same order, also when they are the parser's own placeholder lines.
C19_IngredientsRoundTrip ==
    IngredientsReparsed =>
        /\ LinesOf(ingredients_again.visible_ingredients) = LinesOf(record.image_description)
        /\ LinesOf(ingredients_again.hidden_ingredients) = LinesOf(record.hidden_ingredients)

C19_Witness ==
    /\ IngredientsReparsed
    /\ Len(LinesOf(record.image_description)) = 2
    /\ LinesOf(record.image_description)[1] # LinesOf(record.image_description)[2]
    /\ record.hidden_ingredients = HiddenPlaceholder
    /\ ingredients_again.hidden_ingredients = HiddenPlaceholder
    /\ LinesOf(ingredients_again.visible_ingredients) = LinesOf(record.image_description)

\* C20: every line of image_description, hidden_ingredients and
\* nutrition_info of a result has exactly 4 fields separated by "|", the
\* second of them a number, whatever the response text was.
C20_OnlyWellFormedLines ==
    ParseDone =>
        \A block \in Blocks(record) :
            \A i \in 1..Len(LinesOf(block)) :
                /\ Len(Parts(LinesOf(block)[i])) = 4
                /\ numeric_value(Parts(LinesOf(block)[i])[2]) # ValueError

\* C21: the nutrition_info of every result full_image_analysis returns, the
\* one built in its exception handler included, has at least 7 lines
\* separated by line breaks, one for each required nutrient.
C21_ResultNutritionLines ==
    WorkerDone /\ result # NoResult =>
        /\ Len(LinesOf(result.nutrition_info)) >= 7
        /\ \A n \in SevenNutrients : Occurrences(result.nutrition_info, n) >= 1

(***************************************************************************)
(* src/model_pipeline.py recalculate_nutrition_enhanced, lines 392-468,    *)
(* and src/app.py recalculate_nutrition, lines 507-552                     *)
(***************************************************************************)

\* the ingredient texts a body can carry
IngredientTexts ==
    {"", " ", "Rice | 200 | g | visible in bowl",
     "Rice | 200 | g | visible in bowl\nButter | 10.5 | g | sheen on the rice"}

\* request.get_json(): None for the body null, else the fields of the object
RecalcBodies ==
    {[json |-> "null", keys |-> {}, ingredients |-> "", user_id |-> ""]}
    \cup {[json |-> "object", keys |-> k,
           ingredients |-> IF "ingredients" \in k THEN t ELSE "",
           user_id |-> IF "user_id" \in k THEN "guest" ELSE ""] :
              k \in SUBSET {"ingredients", "user_id"}, t \in IngredientTexts}

\* line 512: not data
IsFalsy(body) == body.json = "null" \/ body.keys = {}

\* HasIngredients accepting every body
HasIngredientsAlways(body) == TRUE

\* lines 515, 518: data.get("ingredients", "") is not falsy
HasIngredients(body) == "ingredients" \in body.keys /\ body.ingredients # ""

SevenCalculated ==
    "Calories | 520 | kcal | rice(260) + butter(75) + oil(185)\n"
    \o "Protein | 5 | g | rice\n"
    \o "Fat | 29 | g | butter, oil\n"
    \o "Carbohydrates | 56 | g | rice\n"
    \o "Fiber | 1 | g | rice\n"
    \o "Sugar | 0 | g | none\n"
    \o "Sodium | 82 | mg | butter\n"

\* the texts generate_content can answer with
RecalcTexts ==
    {"",
     "NUTRITION ANALYSIS:\n" \o SevenCalculated,
     "Here is the calculation.\n\nNUTRITION ANALYSIS:\n" \o SevenCalculated
        \o "\nCALCULATION NOTES:\n- rice 200 g | 130 kcal per 100 g | 260 kcal\n",
     "NUTRITION ANALYSIS:\nCalories | 520 | kcal | rice(260) + butter(75) + oil(185)\n",
     "NUTRITION ANALYSIS:\nCalories | 520 | kcal\n",
     "NUTRITION ANALYSIS:\nabout 520 kcal in total\n",
     "**Nutrition Analysis**\n" \o SevenCalculated,
     "The meal has about 520 kcal, most of them from the rice."}

RecalcOutcomes ==
    {[kind |-> "text", text |-> t] : t \in RecalcTexts}
    \cup {[kind |-> "raise", text |-> e] : e \in TransportErrors}

\* lines 446-455: the lines kept after the line holding the header
RECURSIVE NutritionLinesFrom(_, _, _, _)
NutritionLinesFrom(lines, i, capture, nutrition_lines) ==
    IF i > Len(lines) THEN nutrition_lines
    ELSE LET line == Strip(lines[i])
         IN  IF Contains(line, "NUTRITION ANALYSIS:")
             THEN NutritionLinesFrom(lines, i + 1, TRUE, nutrition_lines)
             ELSE IF capture /\ Contains(line, "|") /\ Len(Parts(line)) >= 3
             THEN NutritionLinesFrom(lines, i + 1, capture, Append(nutrition_lines, line))
             ELSE NutritionLinesFrom(lines, i + 1, capture, nutrition_lines)

\* lines 438-464: what is returned for a non-empty response text; the lines
\* are joined with '\\n', a backslash and an n
ExtractNutrition(text) ==
    LET nutrition_lines == NutritionLinesFrom(Split(text, "\n"), 1, FALSE, << >>)
    IN  IF Contains(text, "NUTRITION ANALYSIS:") /\ nutrition_lines # << >>
        THEN Join(nutrition_lines, "\\n")
        ELSE text

\* lines 469-478: the block returned by the except branch
RecalcFailure(error_msg) ==
    "Calories | 0 | kcal | Recalculation failed: " \o error_msg \o "\n"
    \o "Protein | 0 | g | Recalculation failed: " \o error_msg \o "\n"
    \o "Fat | 0 | g | Recalculation failed: " \o error_msg \o "\n"
    \o "Carbohydrates | 0 | g | Recalculation failed: " \o error_msg \o "\n"
    \o "Fiber | 0 | g | Recalculation failed: " \o error_msg \o "\n"
    \o "Sugar | 0 | g | Recalculation failed: " \o error_msg \o "\n"
    \o "Sodium | 0 | mg | Recalculation failed: " \o error_msg

\* recalculate_nutrition_enhanced, from what generate_content did
recalculate_nutrition_enhanced(o) ==
    IF o.kind = "raise" THEN RecalcFailure(o.text)
    ELSE IF o.text = "" THEN RecalcFailure("Empty response from Gemini API")
    ELSE ExtractNutrition(o.text)

RecalcInit ==
    /\ req = BaseRequest
    /\ InitRequest
    /\ NoRequests
    /\ NoText
    /\ NoPipeline
    /\ NoAuth
    /\ rpc = "start"
    /\ data \in RecalcBodies
    /\ prompts = << >>
    /\ generated = NoResult
    /\ recalculated = ""
    /\ recalc_response = NoResponse

RecalcRespond(status, body) ==
    /\ recalc_response' = [status |-> status, body |-> body]
    /\ rpc' = "responded"

\* lines 512-513
RecalcEmptyRequest ==
    /\ rpc = "start"
    /\ IsFalsy(data)
    /\ RecalcRespond(400, [error |-> "Empty request"])
    /\ UNCHANGED <<data, prompts, generated, recalculated>>
    /\ UNCHANGED <<vars, cvars, pvars, tvars, avars>>

\* lines 518-519
RecalcNoIngredients ==
    /\ rpc = "start"
    /\ ~IsFalsy(data)
    /\ ~HasIngredients(data)
    /\ RecalcRespond(400, [error |-> "No ingredients provided"])
    /\ UNCHANGED <<data, prompts, generated, recalculated>>
    /\ UNCHANGED <<vars, cvars, pvars, tvars, avars>>

\* lines 521-528: the handler calls recalculate_nutrition_enhanced
RecalcAccept ==
    /\ rpc = "start"
    /\ ~IsFalsy(data)
    /\ HasIngredients(data)
    /\ rpc' = "call"
    /\ UNCHANGED <<data, prompts, generated, recalculated, recalc_response>>
    /\ UNCHANGED <<vars, cvars, pvars, tvars, avars>>

\* lines 396-436: the prompt is built around ingredients_text and sent
RecalcCall ==
    /\ rpc = "call"
    /\ prompts' = Append(prompts, data.ingredients)
    /\ \E o \in RecalcOutcomes : generated' = o
    /\ rpc' = "extract"
    /\ UNCHANGED <<data, recalculated, recalc_response>>
    /\ UNCHANGED <<vars, cvars, pvars, tvars, avars>>

\* lines 438-478: recalculate_nutrition_enhanced returns
RecalcReturns ==
    /\ rpc = "extract"
    /\ recalculated' = recalculate_nutrition_enhanced(generated)
    /\ rpc' = "returned"
    /\ UNCHANGED <<data, prompts, generated, recalc_response>>
    /\ UNCHANGED <<vars, cvars, pvars, tvars, avars>>

\* lines 530-535
RecalcFailed ==
    /\ rpc = "returned"
    /\ Contains(recalculated, "Recalculation failed")
    /\ RecalcRespond(500, [error |-> "Nutrition recalculation failed",
                           details |-> "Unable to calculate nutrition from provided ingredients"])
    /\ UNCHANGED <<data, prompts, generated, recalculated>>
    /\ UNCHANGED <<vars, cvars, pvars, tvars, avars>>

\* lines 537-541
RecalcOK ==
    /\ rpc = "returned"
    /\ ~Contains(recalculated, "Recalculation failed")
    /\ RecalcRespond(200, [nutrition_info |-> recalculated,
                           calculation_method |-> "dynamic_ai",
                           contains_hardcoded_values |-> FALSE])
    /\ UNCHANGED <<data, prompts, generated, recalculated>>
    /\ UNCHANGED <<vars, cvars, pvars, tvars, avars>>

RecalcNext ==
    \/ RecalcEmptyRequest
    \/ RecalcNoIngredients
    \/ RecalcAccept
    \/ RecalcCall
    \/ RecalcReturns
    \/ RecalcFailed
    \/ RecalcOK

RecalcSpec == RecalcInit /\ [][RecalcNext]_<<vars, cvars, pvars, evars>>

RecalcReturned == rpc \in {"returned", "responded"} /\ generated # NoResult

\* C22: the block recalculate_nutrition_enhanced returns is made of lines
\* joined by line breaks, each of them with the 4 fields of the line format,
\* whether or not the model's text holds the NUTRITION ANALYSIS section.
C22_RecalculatedBlock ==
    RecalcReturned =>
        \A i \in 1..Len(LinesOf(recalculated)) :
            Len(Parts(LinesOf(recalculated)[i])) = 4

\* the body carries no ingredient text: no body, no such field, or ""
NoIngredientText ==
    data.json = "null" \/ "ingredients" \notin data.keys \/ data.ingredients = ""

\* C23: a recalculation request whose ingredient text is empty or missing is
\* answered 400, and no model call is made for it at any time.
C23_EmptyIngredientsRejected ==
    rpc # "idle" /\ NoIngredientText =>
        /\ prompts = << >>
        /\ generated = NoResult
        /\ rpc \in {"start", "responded"}
        /\ rpc = "responded" =>
              /\ recalc_response.status = 400
              /\ recalc_response.body \in {[error |-> "Empty request"],
                                           [error |-> "No ingredients provided"]}

C23_Witness ==
    /\ rpc = "responded"
    /\ data.json = "object"
    /\ data.keys = {"ingredients", "user_id"}
    /\ data.ingredients = ""
    /\ recalc_response = [status |-> 400, body |-> [error |-> "No ingredients provided"]]
    /\ prompts = << >>

\* a response text with the three section markers and at least one line
\* holding a "|"
StructurallyValid(text) ==
    /\ Contains(Upper(text), "VISIBLE INGREDIENTS")
    /\ Contains(Upper(text), "HIDDEN INGREDIENTS")
    /\ Contains(Upper(text), "NUTRITION ANALYSIS")
    /\ Contains(text, "|")

\* C24: a non-empty response text that lacks a section marker or has no
\* pipe-delimited line is not taken as the outcome of an attempt: the text an
\* attempt of the retry loop returns to full_image_analysis is structurally
\* valid, a malformed one being retried like a failed call.
C24_MalformedTextRetried ==
    succeeded /\ wpc \in {"parse", "done"} => StructurallyValid(gemini_response)

\* the lines parse_dynamic_response goes through for the text being parsed
TextLines == Split(Strip(response_text), "\n")

\* the accumulators after the first k lines
StateAfter(k) == ParseLines(ParseStart, SubSeq(TextLines, 1, k), 1)

\* a line the loop takes as a section header
IsSectionHeader(raw) ==
    LET line == Strip(raw)
    IN  /\ line # ""
        /\ ~StartsWith(line, "DISH NAME:")
        /\ \E marker \in {"VISIBLE INGREDIENTS", "HIDDEN INGREDIENTS", "NUTRITION ANALYSIS",
                          "NUTRITION INFO"} : Contains(Upper(line), marker)

\* the three buckets of the accumulators, by section
Bucket(st, section) ==
    IF section = "visible" THEN st.visible_ingredients
    ELSE IF section = "hidden" THEN st.hidden_ingredients
    ELSE st.nutrition_info

Sections == {"visible", "hidden", "nutrition"}

\* C25: the capture state starts at None, changes only at a line taken as a
\* section header, never goes back to None, and a line is captured into the
\* bucket of the section then current and into no other; nothing is
\* captured while the state is None.
C25_CaptureStates ==
    ParseDone =>
        /\ StateAfter(0).current_section = "None"
        /\ \A s \in Sections : Bucket(StateAfter(0), s) = << >>
        /\ \A k \in 1..Len(TextLines) :
              LET before == StateAfter(k - 1)
                  after  == StateAfter(k)
                  grown  == {s \in Sections : Bucket(after, s) # Bucket(before, s)}
              IN  /\ after.current_section \in Sections \cup {"None"}
                  /\ after.current_section # before.current_section
                        => IsSectionHeader(TextLines[k])
                  /\ before.current_section # "None" => after.current_section # "None"
                  /\ before.current_section = "None" => grown = {}
                  /\ grown \subseteq {before.current_section}
                  /\ \A s \in grown :
                        /\ Bucket(after, s) = Append(Bucket(before, s), Strip(TextLines[k]))
                        /\ after.current_section = before.current_section

C25_Witness ==
    /\ ParseDone
    /\ Len(TextLines) = 6
    /\ StateAfter(1).current_section = "None"
    /\ StateAfter(1).visible_ingredients = << >>
    /\ StateAfter(3).hidden_ingredients = <<"Oil | 5 | ml | sheen">>
    /\ StateAfter(4).current_section = "hidden"
    /\ StateAfter(6).current_section = "visible"
    /\ StateAfter(6).visible_ingredients = <<"Salt | 1 | g | seasoning">>

\* the lines holding only the label of the prompt's format, the name being
\* on the line after them
LabelLines == {k \in 1..(Len(TextLines) - 1) : Strip(TextLines[k]) = "DISH NAME:"}

\* the text has a dish-name label
HasLabel == \E k \in 1..Len(TextLines) : StartsWith(Strip(TextLines[k]), "DISH NAME:")

\* the lines that are neither empty nor a section header
NameCandidates == {k \in 1..Len(TextLines) :
                      Strip(TextLines[k]) # "" /\ ~IsSectionHeader(TextLines[k])}

\* C26: the dish name the parser returns is never a section-header line;
\* when the text follows the prompt's format, a "DISH NAME:" line with the
\* name on the next line, the dish name is that name; when the text has no
\* dish-name label, it is the first line that is neither empty nor a header.
C26_DishName ==
    ParseDone =>
        /\ ~IsSectionHeader(parsed_text.dish_name)
        /\ \A k \in LabelLines :
              (\A j \in 1..(k - 1) : ~StartsWith(Strip(TextLines[j]), "DISH NAME:"))
                  => parsed_text.dish_name = Strip(TextLines[k + 1])
        /\ ~HasLabel /\ NameCandidates # {} =>
              parsed_text.dish_name
                  = Strip(TextLines[CHOOSE k \in NameCandidates : \A j \in NameCandidates : k <= j])

(***************************************************************************)
(* src/food-backend/model_pipeline.py: the three-call pipeline,            *)
(* lines 30-101 and 121-134                                                *)
(***************************************************************************)

\* str.capitalize(): the first character in upper case, the rest in lower
Capitalize(s) ==
    IF s = "" THEN "" ELSE UpperCh(Ch(s, 1)) \o Lower(SubSeq(s, 2, Len(s)))

\* extract_dish_name, lines 96-101: what follows the first "dish name"
\* (any case), an optional ":" or "-" and white space, up to the end of that
\* line; without such a label, the first line of the stripped text
extract_dish_name(description) ==
    IF Contains(Lower(description), "dish name")
    THEN LET n     == Len(description)
             after == FindFirst(Lower(description), "dish name") + Len("dish name")
             from  == IF after <= n /\ Ch(description, after) \in {":", "-"}
                      THEN after + 1 ELSE after
             rest  == SubSeq(description, from, n)
             start == IF \A i \in 1..Len(rest) : IsSpace(Ch(rest, i)) THEN Len(rest) + 1
                      ELSE CHOOSE i \in 1..Len(rest) :
                               ~IsSpace(Ch(rest, i)) /\ \A j \in 1..(i - 1) : IsSpace(Ch(rest, j))
         IN  Capitalize(Strip(Split(SubSeq(rest, start, Len(rest)), "\n")[1]))
    ELSE Capitalize(Strip(Split(Strip(description), "\n")[1]))

\* extract_ingredients_only, lines 48-54: the lines after the first with
\* exactly 4 fields, stripped and joined
extract_ingredients_only(description) ==
    LET lines == SplitLines(description)
        rest  == IF lines = << >> THEN << >> ELSE Tail(lines)
        kept  == SelectSeq(rest, LAMBDA line : Contains(line, "|") /\ Len(Split(line, "|")) = 4)
    IN  Join([i \in 1..Len(kept) |-> Strip(kept[i])], "\n")

\* what generate_content answers to the description prompt
DescriptionTexts ==
    {"Fried rice\nRice | 200 | g | visible in bowl\nEgg | 50 | g | scrambled pieces",
     "Dish name: fried RICE\n Rice | 200 | g | visible in bowl ",
     "Fried rice\nRice | 200 | g\nIt looks tasty.",
     ""}

\* what it answers to the hidden-ingredient prompt
HiddenTexts ==
    {"Oil | 10 | ml | used for frying",
     "Soy sauce | 15 | ml | seasoning\nGarlic | 5 | g | aromatics"}

\* what it answers to the nutrition prompt
NutritionTexts ==
    {"Calories | 520 | kcal | rice and egg\nProtein | 12 | g | egg",
     "About 500 kcal."}

\* one model call: a text, or an exception turned into the text the
\* function returns for it
Answers(texts, prefix) == texts \cup {prefix \o e : e \in TransportErrors}

PipelineInit ==
    /\ req = BaseRequest
    /\ InitRequest
    /\ NoRequests
    /\ NoText
    /\ NoRecalc
    /\ NoAuth
    /\ tpc = "start"
    /\ gemini_description = ""
    /\ dish_name = ""
    /\ cleaned_ingredients = ""
    /\ hidden_ingredients = ""
    /\ nutrition_estimate = ""
    /\ in_flight = {}
    /\ call_log = << >>
    /\ analysis = NoResult

\* line 122, lines 30-43: the description call is sent
DescribeCall ==
    /\ tpc = "start"
    /\ in_flight' = in_flight \cup {"description"}
    /\ call_log' = Append(call_log, [call |-> "description", args |-> <<UploadPath>>])
    /\ tpc' = "describing"
    /\ UNCHANGED <<gemini_description, dish_name, cleaned_ingredients, hidden_ingredients,
                   nutrition_estimate, analysis>>
    /\ UNCHANGED <<vars, cvars, pvars, rvars, avars>>

\* lines 43-46 and 123-124: it returns; the name and the ingredient lines
\* are taken from its text
DescribeReturns ==
    /\ tpc = "describing"
    /\ \E text \in Answers(DescriptionTexts, "Gemini error: ") :
          /\ gemini_description' = text
          /\ dish_name' = extract_dish_name(text)
          /\ cleaned_ingredients' = extract_ingredients_only(text)
    /\ in_flight' = in_flight \ {"description"}
    /\ tpc' = "described"
    /\ UNCHANGED <<hidden_ingredients, nutrition_estimate, call_log, analysis>>
    /\ UNCHANGED <<vars, cvars, pvars, rvars, avars>>

\* line 126, lines 56-66: the hidden-ingredient call is sent
HiddenCall ==
    /\ tpc = "described"
    /\ in_flight' = in_flight \cup {"hidden"}
    /\ call_log' = Append(call_log,
                          [call |-> "hidden", args |-> <<dish_name, cleaned_ingredients>>])
    /\ tpc' = "hidden_calling"
    /\ UNCHANGED <<gemini_description, dish_name, cleaned_ingredients, hidden_ingredients,
                   nutrition_estimate, analysis>>
    /\ UNCHANGED <<vars, cvars, pvars, rvars, avars>>

\* lines 66-70
HiddenReturns ==
    /\ tpc = "hidden_calling"
    /\ \E text \in Answers(HiddenTexts, "Hidden ingredients lookup error: ") :
          hidden_ingredients' = text
    /\ in_flight' = in_flight \ {"hidden"}
    /\ tpc' = "hidden_done"
    /\ UNCHANGED <<gemini_description, dish_name, cleaned_ingredients, nutrition_estimate,
                   call_log, analysis>>
    /\ UNCHANGED <<vars, cvars, pvars, rvars, avars>>

\* NutritionCall sent while the hidden-ingredient call is still out
NutritionCallEarly ==
    /\ tpc = "hidden_calling"
    /\ in_flight' = in_flight \cup {"nutrition"}
    /\ call_log' = Append(call_log,
                          [call |-> "nutrition", args |-> <<dish_name, cleaned_ingredients>>])
    /\ tpc' = "nutrition_calling"
    /\ UNCHANGED <<gemini_description, dish_name, cleaned_ingredients, hidden_ingredients,
                   nutrition_estimate, analysis>>
    /\ UNCHANGED <<vars, cvars, pvars, rvars, avars>>

\* line 127, lines 72-90: the nutrition call is sent, with the name and the
\* ingredient lines of the description
NutritionCall ==
    /\ tpc = "hidden_done"
    /\ in_flight' = in_flight \cup {"nutrition"}
    /\ call_log' = Append(call_log,
                          [call |-> "nutrition", args |-> <<dish_name, cleaned_ingredients>>])
    /\ tpc' = "nutrition_calling"
    /\ UNCHANGED <<gemini_description, dish_name, cleaned_ingredients, hidden_ingredients,
                   nutrition_estimate, analysis>>
    /\ UNCHANGED <<vars, cvars, pvars, rvars, avars>>

\* lines 90-94 and 129-134: it returns and the dict is built
NutritionReturns ==
    /\ tpc = "nutrition_calling"
    /\ \E text \in Answers(NutritionTexts, "Nutrition estimation error: ") :
          /\ nutrition_estimate' = text
          /\ analysis' = [image_description |-> gemini_description,
                          dish_prediction |-> dish_name,
                          hidden_ingredients |-> hidden_ingredients,
                          nutrition_info |-> text]
    /\ in_flight' = in_flight \ {"nutrition"}
    /\ tpc' = "done"
    /\ UNCHANGED <<gemini_description, dish_name, cleaned_ingredients, hidden_ingredients,
                   call_log>>
    /\ UNCHANGED <<vars, cvars, pvars, rvars, avars>>

PipelineNext ==
    \/ DescribeCall
    \/ DescribeReturns
    \/ HiddenCall
    \/ HiddenReturns
    \/ NutritionCall
    \/ NutritionReturns

PipelineSpec == PipelineInit /\ [][PipelineNext]_<<vars, cvars, pvars, evars>>

\* the calls sent so far, in order
CallsSent == [i \in 1..Len(call_log) |-> call_log[i].call]

\* the index of a call in the log, 0 when it was not sent
SentAt(call) ==
    IF \E i \in 1..Len(call_log) : call_log[i].call = call
    THEN CHOOSE i \in 1..Len(call_log) : call_log[i].call = call
    ELSE 0

\* the model calls are sent in the order description, hidden, nutrition, one
\* at a time, each after the one before it has returned
OneCallAtATime ==
    /\ Cardinality(in_flight) <= 1
    /\ CallsSent = SubSeq(<<"description", "hidden", "nutrition">>, 1, Len(call_log))
    /\ "hidden" \in in_flight => tpc = "hidden_calling"
    /\ "nutrition" \in in_flight => tpc = "nutrition_calling"
    /\ SentAt("hidden") # 0 => tpc \notin {"start", "describing"}
    /\ SentAt("nutrition") # 0 => tpc \notin {"start", "describing", "described", "hidden_calling"}

\* C27 as stated: the three calls of a run are sent in the order description,
\* hidden-ingredient, nutrition, at most one is out at any time, each later
\* call is sent after the previous one has returned, and takes the text the
\* previous call returned as input.
C27_EachCallFeedsTheNext ==
    /\ OneCallAtATime
    /\ SentAt("hidden") # 0 =>
          call_log[SentAt("hidden")].args
              = <<extract_dish_name(gemini_description),
                  extract_ingredients_only(gemini_description)>>
    /\ SentAt("nutrition") # 0 =>
          \E i \in 1..Len(call_log[SentAt("nutrition")].args) :
              Contains(call_log[SentAt("nutrition")].args[i], hidden_ingredients)

\* C27 as amended: the three calls are sent in that order, at most one is
\* out at any time and each later call is sent after the previous one has
\* returned; the hidden-ingredient call and the nutrition call both take
\* the dish name and the 4-field ingredient lines extracted from the text of
\* the description call, and the nutrition call takes nothing of the text
\* the hidden-ingredient call returned.
C27_SequentialCalls ==
    /\ OneCallAtATime
    /\ \A call \in {"hidden", "nutrition"} :
          SentAt(call) # 0 =>
              call_log[SentAt(call)].args
                  = <<extract_dish_name(gemini_description),
                      extract_ingredients_only(gemini_description)>>

C27_Witness ==
    /\ tpc = "done"
    /\ CallsSent = <<"description", "hidden", "nutrition">>
    /\ in_flight = {}
    /\ call_log[3].args = <<"Fried rice", "Rice | 200 | g | visible in bowl">>
    /\ gemini_description = "Dish name: fried RICE\n Rice | 200 | g | visible in bowl "
    /\ hidden_ingredients = "Oil | 10 | ml | used for frying"
    /\ analysis.nutrition_info = "About 500 kcal."

\* every model call failed and the failure text was parsed into the result
FailureResult ==
    /\ AllCallsFailed
    /\ WorkerDone
    /\ \E e \in BasicErrors : gemini_response = generate_failure_response(e)

\* C28 as stated: when the three attempts and the basic analysis all fail,
\* the parsed dish name is "Unable to analyze this image" and the endpoint
\* answers 422, never 200.
C28_AllFailedAnswers422 ==
    FailureResult =>
        /\ result.dish_prediction = "Unable to analyze this image"
        /\ Responded => response.status = 422

(***************************************************************************)
(* src/app.py register (lines 84-120) and login (lines 122-149) on the     *)
(* users collection with its unique index on email (lines 33-35);          *)
(* src/auth.py holds the same two handlers with other messages             *)
(***************************************************************************)
MaxRequests == 2

Emails    == {"ann@example.com", "bob@example.com"}
Passwords == {"secret", "Secret1"}
Names     == {"Ann"}

\* request.get_json() of a /register request; "" stands for a field that is
\* missing or empty
RegisterBodies ==
    {[op |-> "register", json |-> "null", name |-> "", email |-> "", password |-> ""]}
    \cup {[op |-> "register", json |-> "object", name |-> n, email |-> e, password |-> p] :
             n \in Names, e \in Emails, p \in Passwords}
    \cup {[op |-> "register", json |-> "object", name |-> "", email |-> "ann@example.com",
           password |-> "secret"],
          [op |-> "register", json |-> "object", name |-> "Ann", email |-> "",
           password |-> ""],
          [op |-> "register", json |-> "object", name |-> "Ann", email |-> "ann@example.com",
           password |-> ""]}

\* request.get_json() of a /login request
LoginBodies ==
    {[op |-> "login", json |-> "null", name |-> "", email |-> "", password |-> ""]}
    \cup {[op |-> "login", json |-> "object", name |-> "", email |-> e, password |-> p] :
             e \in Emails \cup {""}, p \in Passwords \cup {""}}

\* hashlib.sha256(password.encode()).hexdigest(): one digest for each
\* password, different passwords having different digests
sha256(password) == "sha256(" \o password \o ")"

\* str(result.inserted_id) of the n-th document inserted
ObjectId(n) == "oid" \o ToString(n)

\* line 92: the required fields that are missing or empty
missing_fields(body) ==
    SelectSeq(<<"name", "email", "password">>, LAMBDA field : body[field] = "")

\* find_one({"email": email}): the first document with that email, NoResult
\* for None
find_one(collection, email) ==
    IF \E i \in 1..Len(collection) : collection[i].email = email
    THEN collection[CHOOSE i \in 1..Len(collection) :
                        /\ collection[i].email = email
                        /\ \A j \in 1..(i - 1) : collection[j].email # email]
    ELSE NoResult

\* DuplicateKey of a collection without a unique index
DuplicateKeyNever(collection, email) == FALSE

\* lines 33-35: insert_one raises DuplicateKeyError when the unique index
\* on email already holds the email
DuplicateKey(collection, email) == find_one(collection, email) # NoResult

\* PasswordMatches accepting every password
PasswordMatchesAny(user, password) == TRUE

\* line 139: user["password"] != input_pw_hash
PasswordMatches(user, password) == user.password = sha256(password)

AuthInit ==
    /\ req = BaseRequest
    /\ InitRequest
    /\ NoRequests
    /\ NoText
    /\ NoRecalc
    /\ NoPipeline
    /\ users = << >>
    /\ apc = [c \in Clients |-> "idle"]
    /\ abody = [c \in Clients |-> NoResult]
    /\ answer = [c \in Clients |-> NoResponse]
    /\ nreq = [c \in Clients |-> 0]
    /\ snapshot = [c \in Clients |-> << >>]
    /\ oks = [e \in Emails |-> 0]

\* a request arrives at an idle handler thread
Arrives(c, body) ==
    /\ apc[c] = "idle"
    /\ nreq[c] < MaxRequests
    /\ nreq' = [nreq EXCEPT ![c] = @ + 1]
    /\ abody' = [abody EXCEPT ![c] = body]
    /\ snapshot' = [snapshot EXCEPT ![c] = users]

\* return jsonify(body), status
Returns(c, status, body) ==
    /\ answer' = [answer EXCEPT ![c] = [status |-> status, body |-> body]]
    /\ apc' = [apc EXCEPT ![c] = "idle"]

\* register, lines 86-94: the body is None or a required field is missing
RegisterInvalid(c) ==
    /\ \E body \in RegisterBodies :
          /\ Arrives(c, body)
          /\ body.json = "null" \/ missing_fields(body) # << >>
          /\ IF body.json = "null"
             THEN Returns(c, 400, [error |-> "Empty request"])
             ELSE Returns(c, 400,
                          [error |-> "Missing fields: " \o Join(missing_fields(body), ", ")])
    /\ UNCHANGED <<users, oks>>
    /\ UNCHANGED <<vars, cvars, pvars, rvars, tvars>>

\* register, lines 86-94: the body has the three fields
RegisterBegins(c) ==
    /\ \E body \in RegisterBodies :
          /\ Arrives(c, body)
          /\ body.json = "object" /\ missing_fields(body) = << >>
    /\ apc' = [apc EXCEPT ![c] = "find"]
    /\ answer' = [answer EXCEPT ![c] = NoResponse]
    /\ UNCHANGED <<users, oks>>
    /\ UNCHANGED <<vars, cvars, pvars, rvars, tvars>>

\* register, lines 97-99: find_one finds the email
RegisterFound(c) ==
    /\ apc[c] = "find"
    /\ find_one(users, abody[c].email) # NoResult
    /\ Returns(c, 409, [error |-> "Email already registered"])
    /\ UNCHANGED <<users, abody, nreq, snapshot, oks>>
    /\ UNCHANGED <<vars, cvars, pvars, rvars, tvars>>

\* register, lines 97-109: find_one finds nothing; the document is built
RegisterNotFound(c) ==
    /\ apc[c] = "find"
    /\ find_one(users, abody[c].email) = NoResult
    /\ apc' = [apc EXCEPT ![c] = "insert"]
    /\ UNCHANGED <<users, abody, answer, nreq, snapshot, oks>>
    /\ UNCHANGED <<vars, cvars, pvars, rvars, tvars>>

\* register, lines 111-116: insert_one stores the document (created_at left
\* out) and the handler returns its id
RegisterInserts(c) ==
    /\ apc[c] = "insert"
    /\ ~DuplicateKey(users, abody[c].email)
    /\ users' = Append(users, [id |-> ObjectId(Len(users) + 1),
                               name |-> abody[c].name,
                               email |-> abody[c].email,
                               password |-> sha256(abody[c].password)])
    /\ Returns(c, 200, [user_id |-> ObjectId(Len(users) + 1), name |-> abody[c].name])
    /\ oks' = [oks EXCEPT ![abody[c].email] = @ + 1]
    /\ UNCHANGED <<abody, nreq, snapshot>>
    /\ UNCHANGED <<vars, cvars, pvars, rvars, tvars>>

\* register, lines 111 and 118-120: insert_one raises DuplicateKeyError
RegisterInsertFails(c) ==
    /\ apc[c] = "insert"
    /\ DuplicateKey(users, abody[c].email)
    /\ Returns(c, 500, [error |-> "Registration failed"])
    /\ UNCHANGED <<users, abody, nreq, snapshot, oks>>
    /\ UNCHANGED <<vars, cvars, pvars, rvars, tvars>>

\* login, lines 124-131: the body is None, or email or password is missing
LoginInvalid(c) ==
    /\ \E body \in LoginBodies :
          /\ Arrives(c, body)
          /\ body.json = "null" \/ body.email = "" \/ body.password = ""
          /\ IF body.json = "null"
             THEN Returns(c, 400, [error |-> "Empty request"])
             ELSE Returns(c, 400, [error |-> "Email and password required"])
    /\ UNCHANGED <<users, oks>>
    /\ UNCHANGED <<vars, cvars, pvars, rvars, tvars>>

\* login, lines 124-131: the body has both fields
LoginBegins(c) ==
    /\ \E body \in LoginBodies :
          /\ Arrives(c, body)
          /\ body.json = "object" /\ body.email # "" /\ body.password # ""
    /\ apc' = [apc EXCEPT ![c] = "login_find"]
    /\ answer' = [answer EXCEPT ![c] = NoResponse]
    /\ UNCHANGED <<users, oks>>
    /\ UNCHANGED <<vars, cvars, pvars, rvars, tvars>>

\* login, lines 133-146: find_one and the comparison of the digests
LoginFinds(c) ==
    /\ apc[c] = "login_find"
    /\ LET user == find_one(users, abody[c].email)
       IN  IF user = NoResult
           THEN Returns(c, 401, [error |-> "Invalid email or password"])
           ELSE IF ~PasswordMatches(user, abody[c].password)
           THEN Returns(c, 401, [error |-> "Invalid email or password"])
           ELSE Returns(c, 200, [user_id |-> user.id, name |-> user.name])
    /\ UNCHANGED <<users, abody, nreq, snapshot, oks>>
    /\ UNCHANGED <<vars, cvars, pvars, rvars, tvars>>

AuthNext ==
    \E c \in Clients :
        \/ RegisterInvalid(c)
        \/ RegisterBegins(c)
        \/ RegisterFound(c)
        \/ RegisterNotFound(c)
        \/ RegisterInserts(c)
        \/ RegisterInsertFails(c)
        \/ LoginInvalid(c)
        \/ LoginBegins(c)
        \/ LoginFinds(c)

AuthSpec == AuthInit /\ [][AuthNext]_<<vars, cvars, pvars, evars>>

\* client c has been answered a request of the kind op
Answered(c, op) ==
    /\ abody[c] # NoResult
    /\ abody[c].op = op
    /\ apc[c] = "idle"
    /\ answer[c] # NoResponse

\* a body with the fields its handler requires
Complete(body) ==
    /\ body.json = "object"
    /\ body.email # ""
    /\ body.password # ""
    /\ body.op = "register" => body.name # ""

\* at most one document per email, one document for each 200 of register
OneUserPerEmail ==
    /\ \A i, j \in 1..Len(users) : users[i].email = users[j].email => i = j
    /\ \A e \in Emails : oks[e] <= 1
    /\ Len(users) = Cardinality({e \in Emails : oks[e] = 1})

\* C29 as stated: whatever the interleaving of the register calls, the
\* collection holds at most one user per email, at most one register call per
\* email is answered 200, and a register call for an email that is stored
\* leaves the collection as it is and is answered 409.
C29_DuplicateAnswered409 ==
    /\ OneUserPerEmail
    /\ \A c \in Clients :
          Answered(c, "register") /\ Complete(abody[c]) /\ answer[c].status # 200 =>
              answer[c].status = 409

\* C29 as amended: at most one user per email and at most one 200 per email;
\* a register call whose email is stored when the call arrives, or when it
\* looks the email up, changes nothing and is answered 409 "Email already
\* registered"; a call whose email is stored by another call between its
\* lookup and its insert is stopped by the unique index, changes nothing and
\* is answered 500 "Registration failed".
C29_OneUserPerEmail ==
    /\ OneUserPerEmail
    /\ \A c \in Clients :
          Answered(c, "register") /\ Complete(abody[c]) =>
              /\ answer[c].status \in {200, 409, 500}
              /\ find_one(users, abody[c].email) # NoResult
              /\ find_one(snapshot[c], abody[c].email) # NoResult =>
                    answer[c] = [status |-> 409, body |-> [error |-> "Email already registered"]]
              /\ answer[c].status = 500 =>
                    /\ find_one(snapshot[c], abody[c].email) = NoResult
                    /\ answer[c].body = [error |-> "Registration failed"]
              /\ answer[c].status = 200 =>
                    /\ find_one(snapshot[c], abody[c].email) = NoResult
                    /\ answer[c].body = [user_id |-> find_one(users, abody[c].email).id,
                                         name |-> abody[c].name]

C29_Witness ==
    /\ Answered(1, "register") /\ Answered(2, "register")
    /\ abody[1].email = abody[2].email
    /\ answer[1].status = 200
    /\ answer[2].status = 500
    /\ snapshot[2] = << >>
    /\ Len(users) = 1

\* the document registered under the email of a login, in a collection
Registered(collection, body) == find_one(collection, body.email)

\* C30 as stated: a login with the email and the password of an earlier
\* successful register is answered 200 with the user_id and the name that
\* register returned; a login with an email that is not registered, or with
\* a password other than the registered one, is answered 401; a login never
\* changes the collection.
C30_LoginExactly ==
    /\ OneUserPerEmail
    /\ \A c \in Clients :
          Answered(c, "login") /\ abody[c].json = "object" /\ abody[c].email # "" =>
              LET earlier == Registered(snapshot[c], abody[c])
                  stored  == Registered(users, abody[c])
              IN  /\ earlier # NoResult /\ earlier.password = sha256(abody[c].password) =>
                        answer[c] = [status |-> 200,
                                     body |-> [user_id |-> earlier.id, name |-> earlier.name]]
                  /\ stored = NoResult => answer[c].status = 401
                  /\ earlier # NoResult /\ earlier.password # sha256(abody[c].password) =>
                        answer[c].status = 401

\* C30 as amended: the same for a login whose email and password are not
\* empty; a login whose email or password is empty or missing is answered
\* 400; a 200 always carries the id and the name of the stored user with
\* that email and that password.
C30_LoginNonEmpty ==
    /\ OneUserPerEmail
    /\ \A c \in Clients :
          Answered(c, "login") =>
              LET earlier == Registered(snapshot[c], abody[c])
                  stored  == Registered(users, abody[c])
              IN  /\ ~Complete(abody[c]) => answer[c].status = 400
                  /\ Complete(abody[c]) =>
                        /\ earlier # NoResult /\ earlier.password = sha256(abody[c].password) =>
                              answer[c] = [status |-> 200,
                                           body |-> [user_id |-> earlier.id,
                                                     name |-> earlier.name]]
                        /\ stored = NoResult => answer[c].status = 401
                        /\ earlier # NoResult /\ earlier.password # sha256(abody[c].password) =>
                              answer[c].status = 401
                        /\ answer[c].status \in {200, 401}
                        /\ answer[c].status = 200 =>
                              /\ stored # NoResult
                              /\ stored.password = sha256(abody[c].password)
                              /\ answer[c].body = [user_id |-> stored.id, name |-> stored.name]

C30_Witness ==
    /\ Answered(1, "login") /\ Answered(2, "login")
    /\ abody[1].email = "ann@example.com" /\ abody[2].email = "ann@example.com"
    /\ abody[1].password = "secret" /\ abody[2].password = "Secret1"
    /\ answer[1] = [status |-> 200, body |-> [user_id |-> "oid1", name |-> "Ann"]]
    /\ answer[2].status = 401
    /\ Len(snapshot[2]) = 1

====
